---- MODULE Spec2Model ----
(***************************************************************************)
(* A model of the taboo round service: the generic pub/sub Broker          *)
(* (pkg/pubsub), the round Engine and the GameService (internal/service),  *)
(* the round Store (internal/store) and the REST reads on top of them.     *)
(*                                                                         *)
(* Specifications:                                                         *)
(*   SpecBroker  - the Broker alone, driven by a single publishing client  *)
(*                 and subscribers that subscribe, receive and cancel.     *)
(*   Spec        - Engine.Run publishing through GameService to the Broker *)
(*                 with the sqlite Store and a subscriber of the stream.   *)
(*   SpecEngine  - Engine.Run as wired by RunServe over every accepted     *)
(*                 configuration of the model, with the sqlite Store.      *)
(*   SpecRest    - the engine with the reads GetGame and ListGames of the  *)
(*                 REST handlers beside it.                                *)
(*   SpecService - GameService as a component: CreateGame,                 *)
(*                 SetActiveGameID, GetGame and ListGames over either      *)
(*                 Store implementation of the repository.                 *)
(***************************************************************************)
EXTENDS Integers, Sequences, FiniteSets, TLC

(***************************************************************************)
(* Bounds of the model.                                                    *)
(***************************************************************************)
\* number of channels ever created by Subscribe
MaxSubs == 2
\* capacity of a subscriber channel (Broker.bufferSize, set by WithBufferSize)
BufferSize == 2
\* number of events the publishing client of SpecBroker publishes
MaxEvents == 3
\* number of rounds the engine creates before the model stops it
MaxRounds == 2
\* largest pick_count and max_number of the configurations tried in full
MaxPool == 2
\* largest limit given to ListGames
MaxLimit == 2

Chans == 1..MaxSubs

\* Spec follows one subscriber: channels do not act on one another.
EngineChans == {c \in Chans : \A d \in Chans : c <= d}

\* The game configuration the engine of Spec and the callers of SpecService
\* use.
EngineConfig == [PickCount |-> 2, MaxNumber |-> 2]

\* A configuration whose max_number no longer fits the uint8 of a pick.
WideConfig == [PickCount |-> 1, MaxNumber |-> 256]

\* lintGame: pick_count >= 1 and max_number >= pick_count are the only
\* conditions on the two numbers (the durations are not modelled).
lintGame(cfg) == cfg.PickCount >= 1 /\ cfg.MaxNumber >= cfg.PickCount

\* The configurations SpecEngine runs the engine with: the accepted ones up to
\* MaxPool, and the wide one.
EngineConfigs ==
    {cfg \in [PickCount : 0..MaxPool, MaxNumber : 0..MaxPool] \cup {WideConfig} :
        lintGame(cfg)}

VARIABLES
    \* ---- Broker (pkg/pubsub/broker.go) ----
    subscribers,   \* Broker.subscribers: the set of registered channels
    chanState,     \* per channel: "none" (not made yet), "open", "closed"
    buf,           \* per channel: the buffered, unread events (FIFO)
    ctx,           \* per channel: the context given to Subscribe: "none", "live", "cancelled"
    pub,           \* the Publish call in progress (it holds mu.RLock while active)
    \* ---- history of the broker ----
    log,           \* every event handed to Publish, in call order
    recv,          \* per channel: the events its subscriber has received, in order
    drops,         \* per channel: the events Publish dropped for it
    \* ---- Engine (package service) ----
    config,        \* Engine.config: [PickCount, MaxNumber]
    epc,           \* where Engine.Run / runGame stands
    running,       \* Engine.running
    rootCtx,       \* the context given to Engine.Run: "live" or "cancelled"
    picks,         \* runGame: picks
    nextID,        \* runGame: nextID
    idx,           \* runGame: the index i of the draw loop
    \* ---- Store (internal/store) ----
    storeKind,     \* which Store implementation: "sqlite" or "mock"
    table,         \* the stored games [ID, Picks], in creation order
    \* ---- GameService (internal/service/game.go) ----
    activeGameID,  \* GameService.activeGameID
    resp,          \* the result of a GetGame / ListGames call, until its caller has it
    \* ---- history of the engine (kept by SpecEngine) ----
    failed,        \* the ids whose CreateGame failed
    \* ---- history of the store (kept by SpecService) ----
    created,       \* per id, the picks of the game last handed to CreateGame
    \* ---- rateLimiter (pkg/httpx/response.go) ----
    now,           \* time.Now(), in seconds since newRateLimiter
    tickDue,       \* the ticker of cleanupLoop has fired and cleanup has not run yet
    limiters,      \* rateLimiter.limiters: per address, where its entry lives (0: none)
    heap,          \* the limiterEntry objects [tokens, last, lastSeen], by where they live
    req,           \* per request in flight: how far RateLimit is, its key, its entry
    nreq,          \* the number of requests started
    \* ---- history of the rate limiter ----
    firstSeen,     \* per address, when its first request came (-1: never)
    passed,        \* per address, how often the next handler was called
    rejected,      \* per address, how often 429 was answered
    \* ---- a request in the middleware chain (pkg/httpx) ----
    hreq,          \* the request: its path, whether it accepts gzip
    hpos,          \* where the goroutine of the request is: "idle", "select", "inline", "finished"
    hpc,           \* where the route handler is: "none", "run", "write", "done"
    deadline,      \* the deadline of TimeoutWithSkip: "none", "armed", "fired"
    hctx,          \* the context the handler was given: "none", "live", "cancelled"
    twWroteHeader, \* timeoutWriter.wroteHeader
    rstatus,       \* the status written to the ResponseWriter of net/http (0: none)
    rbody,         \* the body written to it: per chunk, who wrote it
    encoded,       \* Content-Encoding: gzip is set
    \* ---- history of the request ----
    late,          \* the ResponseWriter was written to after ServeHTTP had returned
    crashed,       \* a panic ended the process
    \* ---- SSE connections (internal/http/events.go) and Server.Run ----
    sse,           \* per connection, its handler: "none", "loop", "returned"
    frames,        \* per connection, the frames written and flushed to it
    hbTick,        \* per connection, a tick is waiting in heartbeat.C
    conn,          \* per connection: "open", or "broken" when the client is gone
    srv,           \* Server.Run: "serving", "draining", "returned", "failed"; "exited": the process has ended
    \* ---- GET /api/v1/games (internal/http/games.go) ----
    lresp,         \* the last answer of handleListGames: status, games, next_cursor
    walk,          \* a client following next_cursor: where it is, what it has seen
    \* ---- GetClientIP on the text of a request ----
    ipReq,         \* the request: X-Forwarded-For, X-Real-IP, RemoteAddr
    ipKey,         \* what GetClientIP returned for it (NoKey: not called yet)
    \* ---- SSEClient (sdk) ----
    maxRetries,    \* SSEClient.maxRetries
    cctx,          \* the context given to Connect: "live" or "cancelled"
    cpc,           \* where Connect stands
    retries,       \* Connect: retries
    cerr,          \* the error connect returned, then the one Connect returned
    body,          \* connect: what is still to be read of resp.Body
    bodyErr,       \* connect: the read error the body ends with, or "" for EOF
    eventType,     \* connect: eventType
    data,          \* connect: data
    \* ---- history of the client ----
    attempts,      \* the requests httpClient.Do has sent
    sent,          \* the frames the server wrote to the present connection
    calls          \* the calls made to the EventHandler, in order

brokerVars == <<subscribers, chanState, buf, ctx, pub, log, recv, drops>>
engineVars == <<config, epc, running, rootCtx, picks, nextID, idx>>
storeVars == <<storeKind, table>>
serviceVars == <<activeGameID, resp>>
limiterVars == <<now, tickDue, limiters, heap, req, nreq, firstSeen, passed, rejected>>
httpVars == <<hreq, hpos, hpc, deadline, hctx, twWroteHeader, rstatus, rbody, encoded, late, crashed>>
sseVars == <<sse, frames, hbTick, conn, srv>>
listVars == <<lresp, walk>>
ipVars == <<ipReq, ipKey>>
sdkVars == <<maxRetries, cctx, cpc, retries, cerr, body, bodyErr, eventType, data, attempts, sent, calls>>

vars == <<brokerVars, engineVars, storeVars, serviceVars, failed, created, limiterVars, httpVars, sseVars, listVars, ipVars, sdkVars>>

(***************************************************************************)
(* Rate limiter (pkg/httpx/response.go)                                    *)
(*                                                                         *)
(* Time is counted in whole seconds, the unit of RateLimitConfig.Rate.     *)
(* The client addresses are 1, 2; 0 stands for a blank (all spaces) entry  *)
(* of a header.  A limiterEntry lives at an address: the map holds         *)
(* addresses, and so does a request between the steps of getLimiter, which *)
(* may therefore hold an entry the eviction loop has since removed.        *)
(***************************************************************************)

\* The most requests a behaviour starts.
MaxRequests == 4

IPs == {1, 2}

\* The requests that may be in flight together.
Slots == {1, 2}

\* RateLimitConfig: rate 1 and burst 2 as in TestRateLimit_BlocksExcessRequests,
\* the two durations in seconds.
LimiterConfig == [Rate |-> 1, Burst |-> 2, CleanupInterval |-> 1, MaxAge |-> 2]

\* The last second of a behaviour: an entry made at the start has expired and
\* a cleanup interval has passed since.
MaxTime == LimiterConfig.MaxAge + LimiterConfig.CleanupInterval

Addrs == 1..(2 * MaxRequests)

\* The headers and the remote address of a request: X-Forwarded-For as its
\* comma-separated entries (<<>> when the header is absent), X-Real-IP (0 when
\* absent), and the host of RemoteAddr.
Requests ==
    [xff : {<<>>, <<0>>} \cup {<<a>> : a \in IPs} \cup {<<1, 2>>, <<2, 1>>},
     xri : IPs \cup {0},
     remote : IPs]

\* GetClientIP: the first X-Forwarded-For entry unless it is blank, then
\* X-Real-IP, then the remote address.
GetClientIP(r) ==
    IF Len(r.xff) > 0 /\ r.xff[1] # 0 THEN r.xff[1]
    ELSE IF r.xri # 0 THEN r.xri
    ELSE r.remote

\* A limiter that keeps one entry for every address.
LimiterKeyShared(ip) == 1

\* The key under which getLimiter looks the entry of an address up.
LimiterKey(ip) == ip

\* rate.NewLimiter(rate, burst) inside a new limiterEntry: a full bucket.
\* owner is history: the address whose request made the entry.
NewLimiterEntry(ip, t) ==
    [tokens |-> LimiterConfig.Burst, last |-> t, lastSeen |-> t, owner |-> ip]

\* The tokens of a bucket at time t: Rate tokens a second since its last
\* update, never more than Burst.
Advance(e, t) ==
    LET n == e.tokens + LimiterConfig.Rate * (t - e.last) IN
    IF n > LimiterConfig.Burst THEN LimiterConfig.Burst ELSE n

\* A limiter that allows every call.
AllowUnmetered(e, t) == [ok |-> TRUE, entry |-> e]

\* limiter.Allow() at time t: takes one token when one is there, and leaves
\* the bucket alone when none is.
Allow(e, t) ==
    IF Advance(e, t) >= 1
    THEN [ok |-> TRUE, entry |-> [e EXCEPT !.tokens = Advance(e, t) - 1, !.last = t]]
    ELSE [ok |-> FALSE, entry |-> e]

\* A test that also takes the entries whose age is just max_age.
ExpiredAtMaxAge(e, t) == t - e.lastSeen >= LimiterConfig.MaxAge

\* cleanup's test on an entry: now.Sub(entry.lastSeen) > rl.maxAge.
Expired(e, t) == t - e.lastSeen > LimiterConfig.MaxAge

IdleRequest == [pc |-> "idle", ip |-> 0, ref |-> 0]

\* The entries still referred to, by the map or by a request in getLimiter or
\* in front of Allow; the others are garbage.
Collect(h, lims, rq) ==
    [a \in {b \in DOMAIN h : (\E ip \in IPs : lims[ip] = b) \/ (\E s \in Slots : rq[s].ref = b)}
        |-> h[a]]

NewAddr == CHOOSE a \in Addrs : a \notin DOMAIN heap /\ \A b \in Addrs : b \notin DOMAIN heap => a <= b

\* newRateLimiter: an empty map, the ticker started.
LimiterInit ==
    /\ now = 0
    /\ tickDue = FALSE
    /\ limiters = [ip \in IPs |-> 0]
    /\ heap = <<>>
    /\ req = [s \in Slots |-> IdleRequest]
    /\ nreq = 0
    /\ firstSeen = [ip \in IPs |-> -1]
    /\ passed = [ip \in IPs |-> 0]
    /\ rejected = [ip \in IPs |-> 0]

\* RateLimit, up to the first read of getLimiter: the key of the request and,
\* under the read lock, the entry the map holds for it.  A request takes the
\* first free place of Slots.
RequestBegin(s, r) ==
    LET ip == GetClientIP(r)
        a == limiters[LimiterKey(ip)] IN
    /\ req[s].pc = "idle"
    /\ \A z \in Slots : z < s => req[z].pc # "idle"
    /\ nreq < MaxRequests
    /\ nreq' = nreq + 1
    /\ req' = [req EXCEPT ![s] = [pc |-> IF a # 0 THEN "update" ELSE "create",
                                  ip |-> ip, ref |-> a]]
    /\ firstSeen' = [firstSeen EXCEPT ![ip] = IF @ = -1 THEN now ELSE @]
    /\ UNCHANGED <<now, tickDue, limiters, heap, passed, rejected>>

\* getLimiter, the entry was there: lastSeen is set under the write lock, on
\* the entry read before, whether or not the map still holds it.
GetLimiterUpdate(s) ==
    /\ req[s].pc = "update"
    /\ heap' = [heap EXCEPT ![req[s].ref].lastSeen = now]
    /\ req' = [req EXCEPT ![s].pc = "allow"]
    /\ UNCHANGED <<now, tickDue, limiters, nreq, firstSeen, passed, rejected>>

\* getLimiter, the entry was not there: under the write lock the map is read
\* again, and the entry is made if it is still missing.
GetLimiterCreate(s) ==
    LET k == LimiterKey(req[s].ip) IN
    /\ req[s].pc = "create"
    /\ IF limiters[k] # 0
       THEN /\ heap' = [heap EXCEPT ![limiters[k]].lastSeen = now]
            /\ req' = [req EXCEPT ![s].pc = "allow", ![s].ref = limiters[k]]
            /\ UNCHANGED limiters
       ELSE /\ heap' = [a \in DOMAIN heap \cup {NewAddr} |->
                           IF a = NewAddr THEN NewLimiterEntry(req[s].ip, now) ELSE heap[a]]
            /\ limiters' = [limiters EXCEPT ![k] = NewAddr]
            /\ req' = [req EXCEPT ![s].pc = "allow", ![s].ref = NewAddr]
    /\ UNCHANGED <<now, tickDue, nreq, firstSeen, passed, rejected>>

\* RateLimit after getLimiter: 429 when Allow refuses, the next handler
\* otherwise; the request is over.
RateLimitAllow(s) ==
    LET a == req[s].ref
        res == Allow(heap[a], now)
        ip == req[s].ip
        rq == [req EXCEPT ![s] = IdleRequest] IN
    /\ req[s].pc = "allow"
    /\ req' = rq
    /\ heap' = Collect([heap EXCEPT ![a] = res.entry], limiters, rq)
    /\ passed' = [passed EXCEPT ![ip] = IF res.ok THEN @ + 1 ELSE @]
    /\ rejected' = [rejected EXCEPT ![ip] = IF res.ok THEN @ ELSE @ + 1]
    /\ UNCHANGED <<now, tickDue, limiters, nreq, firstSeen>>

\* A second passes; the ticker of cleanupLoop fires every CleanupInterval, and
\* cleanup runs at the tick.
ClockAdvance ==
    /\ now < MaxTime
    /\ ~tickDue
    /\ now' = now + 1
    /\ tickDue' = ((now + 1) % LimiterConfig.CleanupInterval = 0)
    /\ UNCHANGED <<limiters, heap, req, nreq, firstSeen, passed, rejected>>

\* cleanup: under the write lock, every expired entry leaves the map.
LimiterCleanup ==
    LET lims == [ip \in IPs |-> IF limiters[ip] # 0 /\ Expired(heap[limiters[ip]], now)
                                THEN 0 ELSE limiters[ip]] IN
    /\ tickDue
    /\ tickDue' = FALSE
    /\ limiters' = lims
    /\ heap' = Collect(heap, lims, req)
    /\ UNCHANGED <<now, req, nreq, firstSeen, passed, rejected>>

LimiterStep(s) ==
    \/ \E r \in Requests : RequestBegin(s, r)
    \/ GetLimiterUpdate(s)
    \/ GetLimiterCreate(s)
    \/ RateLimitAllow(s)

(***************************************************************************)
(* Middleware chain (internal/http server, pkg/httpx)                      *)
(*                                                                         *)
(* One request on its way through Gzip, TimeoutWithSkip and Recoverer to   *)
(* a route handler.  The handler is any handler: it may write the header,  *)
(* write body chunks, panic, or return, in any order.  The response is     *)
(* what reached the ResponseWriter of net/http: a status (0: none yet) and *)
(* the chunks of the body, each named after its writer.                    *)
(***************************************************************************)

\* The most body chunks a handler writes.
MaxBody == 2

\* NewServer: sseEndpoint, and a path of the REST interface.
sseEndpoint == "/api/v1/events"
Paths == {sseEndpoint, "/api/v1/games"}

\* NewServer: the skip paths handed to Gzip and to TimeoutWithSkip.
GzipSkip == {sseEndpoint}

\* A timeout middleware that skips no path.
TimeoutSkipNone == {}

TimeoutSkip == {sseEndpoint}

\* A chain with Recoverer outermost.
ChainRecovererFirst == <<"Recoverer", "CORS", "RateLimit", "Gzip", "Timeout", "Logging">>

\* NewServer: the arguments of httpx.Chain in order; Chain wraps from the last
\* to the first, so the first is the outermost.
Chain == <<"CORS", "RateLimit", "Gzip", "Timeout", "Logging", "Recoverer">>

Position(m) == CHOOSE i \in 1..Len(Chain) : Chain[i] = m

\* a encloses b: a request reaches a before b.
Encloses(a, b) == Position(a) < Position(b)

\* The requests: a path and whether Accept-Encoding names gzip.
HttpRequests == [path : Paths, acceptGzip : BOOLEAN]

NoRequest == [path |-> "", acceptGzip |-> FALSE]

\* Gzip wraps the writer unless the path is skipped or gzip is not accepted.
GzipWraps(r) == r.path \notin GzipSkip /\ r.acceptGzip

\* TimeoutWithSkip gives a deadline, and runs the handler on a goroutine of
\* its own, unless the path is skipped.
TimeoutWraps(r) == r.path \notin TimeoutSkip

\* WriteHeader on the ResponseWriter of net/http: the first status stays.
WriteStatus(old, code) == IF old = 0 THEN code ELSE old

HttpInit ==
    /\ hreq = NoRequest
    /\ hpos = "idle"
    /\ hpc = "none"
    /\ deadline = "none"
    /\ hctx = "none"
    /\ twWroteHeader = FALSE
    /\ rstatus = 0
    /\ rbody = <<>>
    /\ encoded = FALSE
    /\ late = FALSE
    /\ crashed = FALSE

\* The request comes down the chain to the handler: Gzip sets
\* Content-Encoding when it wraps, TimeoutWithSkip starts the handler on a
\* goroutine and waits in its select, or calls it directly for a skipped path.
HttpBegin(r) ==
    /\ hpos = "idle"
    /\ hreq' = r
    /\ encoded' = GzipWraps(r)
    /\ hpos' = IF TimeoutWraps(r) THEN "select" ELSE "inline"
    /\ deadline' = IF TimeoutWraps(r) THEN "armed" ELSE "none"
    /\ hctx' = "live"
    /\ hpc' = "run"
    /\ UNCHANGED <<twWroteHeader, rstatus, rbody, late, crashed>>

\* The handler calls WriteHeader(200): through timeoutWriter.WriteHeader, which
\* sets wroteHeader and writes the header under the lock, or directly.
HandlerWriteHeader ==
    /\ hpc = "run"
    /\ IF TimeoutWraps(hreq)
       THEN /\ twWroteHeader' = TRUE
            /\ rstatus' = IF twWroteHeader THEN rstatus ELSE WriteStatus(rstatus, 200)
            /\ late' = (late \/ (~twWroteHeader /\ hpos = "finished"))
       ELSE /\ rstatus' = WriteStatus(rstatus, 200)
            /\ UNCHANGED <<twWroteHeader, late>>
    /\ UNCHANGED <<hreq, hpos, hpc, deadline, hctx, rbody, encoded, crashed>>

\* The handler calls Write.  timeoutWriter.Write sets wroteHeader under the
\* lock, releases it, and only then writes.
HandlerWriteBegin ==
    /\ hpc = "run"
    /\ Len(rbody) < MaxBody
    /\ hpc' = "write"
    /\ twWroteHeader' = (twWroteHeader \/ TimeoutWraps(hreq))
    /\ UNCHANGED <<hreq, hpos, deadline, hctx, rstatus, rbody, encoded, late, crashed>>

\* The Write reaches the ResponseWriter: an implicit 200 if no header was
\* written, then the chunk.  After ServeHTTP has returned the ResponseWriter
\* may not be used any more; late records that it was.
HandlerWriteEnd ==
    /\ hpc = "write"
    /\ hpc' = "run"
    /\ rstatus' = WriteStatus(rstatus, 200)
    /\ rbody' = Append(rbody, "handler")
    /\ late' = (late \/ hpos = "finished")
    /\ UNCHANGED <<hreq, hpos, deadline, hctx, twWroteHeader, encoded, crashed>>

\* The handler is done: ServeHTTP returns, directly to the server for a
\* skipped path, to the goroutine that closes done otherwise.
HandlerDone ==
    /\ hpc' = "done"
    /\ hpos' = IF hpos = "inline" THEN "finished" ELSE hpos
    /\ UNCHANGED <<hreq, deadline, hctx, encoded>>

HandlerReturn ==
    /\ hpc = "run"
    /\ HandlerDone
    /\ UNCHANGED <<twWroteHeader, rstatus, rbody, late, crashed>>

\* The handler panics.  A Recoverer between the handler and the goroutine of
\* TimeoutWithSkip recovers; it calls http.Error(w, ..., 500) on the writer it
\* was given.  A panic that leaves a goroutine ends the process; one that
\* leaves the goroutine of the request is recovered by net/http, which drops
\* the connection.
HandlerPanic ==
    /\ hpc = "run"
    /\ IF TimeoutWraps(hreq) /\ ~Encloses("Timeout", "Recoverer")
       THEN /\ crashed' = TRUE
            /\ UNCHANGED <<twWroteHeader, rstatus, rbody, late>>
       ELSE /\ rstatus' = IF TimeoutWraps(hreq) /\ twWroteHeader THEN rstatus
                          ELSE WriteStatus(rstatus, 500)
            /\ twWroteHeader' = (twWroteHeader \/ TimeoutWraps(hreq))
            /\ rbody' = Append(rbody, "recoverer")
            /\ late' = (late \/ hpos = "finished")
            /\ UNCHANGED crashed
    /\ HandlerDone

\* The deadline of context.WithTimeout passes: the context of the handler is
\* cancelled.
DeadlineFires ==
    /\ hpos = "select"
    /\ deadline = "armed"
    /\ deadline' = "fired"
    /\ hctx' = "cancelled"
    /\ UNCHANGED <<hreq, hpos, hpc, twWroteHeader, rstatus, rbody, encoded, late, crashed>>

\* select, case <-done: the handler has returned; the deferred cancel runs.
TimeoutDone ==
    /\ hpos = "select"
    /\ hpc = "done"
    /\ ~crashed
    /\ hpos' = "finished"
    /\ hctx' = "cancelled"
    /\ UNCHANGED <<hreq, hpc, deadline, twWroteHeader, rstatus, rbody, encoded, late, crashed>>

\* select, case <-ctx.Done(): under the lock of the timeoutWriter, 504 unless
\* wroteHeader is set; then TimeoutWithSkip returns, the handler still running.
TimeoutExpired ==
    /\ hpos = "select"
    /\ deadline = "fired"
    /\ ~crashed
    /\ hpos' = "finished"
    /\ IF twWroteHeader
       THEN UNCHANGED <<rstatus, rbody>>
       ELSE /\ rstatus' = WriteStatus(rstatus, 504)
            /\ rbody' = Append(rbody, "timeout")
    /\ UNCHANGED <<hreq, hpc, deadline, hctx, twWroteHeader, encoded, late, crashed>>

\* What the client is answered once ServeHTTP has returned: net/http sends 200
\* when no status was written.
ClientStatus == IF rstatus = 0 THEN 200 ELSE rstatus

NoPublish == [active |-> FALSE, event |-> 0, pending |-> {}, late |-> {}]

(***************************************************************************)
(* Broker                                                                  *)
(***************************************************************************)

\* New: no subscribers; nothing published yet.
BrokerInit ==
    /\ subscribers = {}
    /\ chanState = [c \in Chans |-> "none"]
    /\ buf = [c \in Chans |-> <<>>]
    /\ ctx = [c \in Chans |-> "none"]
    /\ pub = NoPublish
    /\ log = <<>>
    /\ recv = [c \in Chans |-> <<>>]
    /\ drops = [c \in Chans |-> {}]

\* SubscriberCount: len(b.subscribers).
SubscriberCount == Cardinality(subscribers)

\* Subscribe: make(chan T, bufferSize); under mu.Lock add it to the set; start
\* the cleanup goroutine, which waits for ctx.Done().  mu.Lock waits for a
\* Publish that holds mu.RLock.
Subscribe(c) ==
    /\ chanState[c] = "none"
    /\ \A d \in Chans : d < c => chanState[d] # "none"
    /\ ~pub.active
    /\ chanState' = [chanState EXCEPT ![c] = "open"]
    /\ ctx' = [ctx EXCEPT ![c] = "live"]
    /\ subscribers' = subscribers \cup {c}
    /\ UNCHANGED <<buf, pub, log, recv, drops>>

\* The caller cancels the context it gave to Subscribe.
Cancel(c) ==
    /\ ctx[c] = "live"
    /\ ctx' = [ctx EXCEPT ![c] = "cancelled"]
    /\ UNCHANGED <<subscribers, chanState, buf, pub, log, recv, drops>>

\* A cleanup that closes the channel and leaves it in the subscriber set.
CleanupNoDelete(c) ==
    /\ ctx[c] = "cancelled"
    /\ chanState[c] = "open"
    /\ ~pub.active
    /\ subscribers' = subscribers
    /\ chanState' = [chanState EXCEPT ![c] = "closed"]
    /\ UNCHANGED <<buf, ctx, pub, log, recv, drops>>

\* A cleanup that takes no lock: it runs while a Publish call is in progress.
CleanupUnlocked(c) ==
    /\ ctx[c] = "cancelled"
    /\ chanState[c] = "open"
    /\ subscribers' = subscribers \ {c}
    /\ chanState' = [chanState EXCEPT ![c] = "closed"]
    /\ UNCHANGED <<buf, ctx, pub, log, recv, drops>>

\* The cleanup goroutine of Subscribe, after <-ctx.Done(): under mu.Lock
\* delete(b.subscribers, ch); close(ch).
Cleanup(c) ==
    /\ ctx[c] = "cancelled"
    /\ chanState[c] = "open"
    /\ ~pub.active
    /\ subscribers' = subscribers \ {c}
    /\ chanState' = [chanState EXCEPT ![c] = "closed"]
    /\ UNCHANGED <<buf, ctx, pub, log, recv, drops>>

\* Publish, entry: mu.RLock(); range over b.subscribers.  The field late is
\* history: the registered channels whose context was already cancelled when
\* the call began.
PublishBegin(e) ==
    /\ ~pub.active
    /\ pub' = [active |-> TRUE, event |-> e, pending |-> subscribers,
               late |-> {c \in subscribers : ctx[c] = "cancelled"}]
    /\ log' = Append(log, e)
    /\ UNCHANGED <<subscribers, chanState, buf, ctx, recv, drops>>

\* A send that waits for room instead of falling to "default" (a plain
\* "ch <- event").
SelectSendBlocking(c, e) ==
    /\ Len(buf[c]) < BufferSize
    /\ buf' = [buf EXCEPT ![c] = Append(@, e)]
    /\ drops' = drops

\* A full buffer that gives up its oldest event to take the new one.
SelectSendDropOldest(c, e) ==
    IF Len(buf[c]) < BufferSize
    THEN /\ buf' = [buf EXCEPT ![c] = Append(@, e)]
         /\ drops' = drops
    ELSE /\ buf' = [buf EXCEPT ![c] = Append(Tail(@), e)]
         /\ drops' = [drops EXCEPT ![c] = @ \cup {Head(buf[c])}]

\* The select of Publish on one channel of the range: "case ch <- event" when
\* the buffer has room, else "default": the event is dropped for this channel.
SelectSend(c, e) ==
    IF Len(buf[c]) < BufferSize
    THEN /\ buf' = [buf EXCEPT ![c] = Append(@, e)]
         /\ drops' = drops
    ELSE /\ buf' = buf
         /\ drops' = [drops EXCEPT ![c] = @ \cup {e}]

\* Publish, one iteration of the range loop (map order is arbitrary).
PublishSend(c) ==
    /\ pub.active
    /\ c \in pub.pending
    /\ SelectSend(c, pub.event)
    /\ pub' = [pub EXCEPT !.pending = @ \ {c}]
    /\ UNCHANGED <<subscribers, chanState, ctx, log, recv>>

\* Publish, return: the deferred mu.RUnlock().
PublishReturn ==
    /\ pub.active
    /\ pub.pending = {}
    /\ pub' = NoPublish

\* A receive that takes the newest buffered event.
ReceiveNewest(c) ==
    /\ chanState[c] # "none"
    /\ buf[c] # <<>>
    /\ recv' = [recv EXCEPT ![c] = Append(@, buf[c][Len(buf[c])])]
    /\ buf' = [buf EXCEPT ![c] = SubSeq(@, 1, Len(@) - 1)]
    /\ UNCHANGED <<subscribers, chanState, ctx, pub, log, drops>>

\* A subscriber receives the next buffered event from its channel.
Receive(c) ==
    /\ chanState[c] # "none"
    /\ buf[c] # <<>>
    /\ recv' = [recv EXCEPT ![c] = Append(@, Head(buf[c]))]
    /\ buf' = [buf EXCEPT ![c] = Tail(@)]
    /\ UNCHANGED <<subscribers, chanState, ctx, pub, log, drops>>

(***************************************************************************)
(* SSE handler (internal/http/events.go, httpx.SSEStream)                  *)
(*                                                                         *)
(* One handler per connection; the connection is named after the broker    *)
(* channel its handler subscribes.  The context of the request is the      *)
(* context given to Subscribe.                                             *)
(***************************************************************************)

\* The most heartbeat ticks a connection sees.
MaxHeartbeats == 1

\* SendHeartbeat: the frame of type game:heartbeat.
Heartbeat == [type |-> "game:heartbeat", event |-> <<>>]

\* Send(event.Type, event.Data): the frame of a game event.
EventFrame(e) == [type |-> "game", event |-> <<e>>]

\* The heartbeat frames among fs.
Heartbeats(fs) == {i \in 1..Len(fs) : fs[i].type = "game:heartbeat"}

SseInit ==
    /\ sse = [c \in Chans |-> "none"]
    /\ frames = [c \in Chans |-> <<>>]
    /\ hbTick = [c \in Chans |-> FALSE]
    /\ conn = [c \in Chans |-> "open"]
    /\ srv = "serving"

\* handleEvents up to its loop: the write deadline is cleared, NewSSEStream
\* writes the headers, and the handler subscribes with the context of the
\* request and starts its heartbeat ticker.
SseConnect(c) ==
    /\ sse[c] = "none"
    /\ srv = "serving"
    /\ rootCtx = "live"
    /\ Subscribe(c)
    /\ sse' = [sse EXCEPT ![c] = "loop"]
    /\ UNCHANGED <<frames, hbTick, conn, srv>>

\* handleEvents returns: the deferred heartbeat.Stop(), and net/http cancels
\* the context of the request when its handler has returned.
SseReturn(c) ==
    /\ sse' = [sse EXCEPT ![c] = "returned"]
    /\ ctx' = [ctx EXCEPT ![c] = "cancelled"]
    /\ hbTick' = [hbTick EXCEPT ![c] = FALSE]

\* A ticker goroutine that writes the heartbeat frame itself.
SseTickWrites(c) ==
    /\ sse[c] = "loop"
    /\ Cardinality(Heartbeats(frames[c])) < MaxHeartbeats
    /\ frames' = [frames EXCEPT ![c] = Append(@, Heartbeat)]
    /\ UNCHANGED <<brokerVars, sse, hbTick, conn, srv>>

\* The heartbeat ticker fires (a tick that finds one waiting is dropped).
SseTick(c) ==
    /\ sse[c] = "loop"
    /\ ~hbTick[c]
    /\ Cardinality(Heartbeats(frames[c])) < MaxHeartbeats
    /\ hbTick' = [hbTick EXCEPT ![c] = TRUE]
    /\ UNCHANGED <<brokerVars, sse, frames, conn, srv>>

\* A loop that serves the heartbeat only when no event is waiting.
SseHeartbeatWhenIdle(c) ==
    /\ sse[c] = "loop"
    /\ hbTick[c]
    /\ hbTick' = [hbTick EXCEPT ![c] = FALSE]
    /\ frames' = [frames EXCEPT ![c] = IF buf[c] = <<>> THEN Append(@, Heartbeat) ELSE @]
    /\ UNCHANGED <<brokerVars, sse, conn, srv>>

\* A loop that goes on after a failed write.
SseHeartbeatIgnoresError(c) ==
    /\ sse[c] = "loop"
    /\ hbTick[c]
    /\ hbTick' = [hbTick EXCEPT ![c] = FALSE]
    /\ frames' = [frames EXCEPT ![c] = IF conn[c] = "open" THEN Append(@, Heartbeat) ELSE @]
    /\ UNCHANGED <<brokerVars, sse, conn, srv>>

\* select, case <-heartbeat.C: SendHeartbeat writes the frame and flushes;
\* a write error ends the handler.
SseHeartbeat(c) ==
    /\ sse[c] = "loop"
    /\ hbTick[c]
    /\ IF conn[c] = "open"
       THEN /\ frames' = [frames EXCEPT ![c] = Append(@, Heartbeat)]
            /\ hbTick' = [hbTick EXCEPT ![c] = FALSE]
            /\ UNCHANGED <<ctx, sse>>
       ELSE /\ SseReturn(c)
            /\ UNCHANGED frames
    /\ UNCHANGED <<subscribers, chanState, buf, pub, log, recv, drops, conn, srv>>

\* select, case event, ok := <-events with an event: Send writes the frame and
\* flushes; a write error ends the handler.
SseEvent(c) ==
    /\ sse[c] = "loop"
    /\ buf[c] # <<>>
    /\ buf' = [buf EXCEPT ![c] = Tail(@)]
    /\ recv' = [recv EXCEPT ![c] = Append(@, Head(buf[c]))]
    /\ IF conn[c] = "open"
       THEN /\ frames' = [frames EXCEPT ![c] = Append(@, EventFrame(Head(buf[c])))]
            /\ UNCHANGED <<ctx, sse, hbTick>>
       ELSE /\ SseReturn(c)
            /\ UNCHANGED frames
    /\ UNCHANGED <<subscribers, chanState, pub, log, drops, conn, srv>>

\* select, case event, ok := <-events on the closed, drained channel: !ok.
SseChanClosed(c) ==
    /\ sse[c] = "loop"
    /\ chanState[c] = "closed"
    /\ buf[c] = <<>>
    /\ SseReturn(c)
    /\ UNCHANGED <<subscribers, chanState, buf, pub, log, recv, drops, frames, conn, srv>>

\* select, case <-ctx.Done().
SseCtxDone(c) ==
    /\ sse[c] = "loop"
    /\ ctx[c] = "cancelled"
    /\ SseReturn(c)
    /\ UNCHANGED <<subscribers, chanState, buf, pub, log, recv, drops, frames, conn, srv>>

\* The client goes away: from now on a write to the connection fails.
ClientGone(c) ==
    /\ sse[c] = "loop"
    /\ conn[c] = "open"
    /\ conn' = [conn EXCEPT ![c] = "broken"]
    /\ UNCHANGED <<brokerVars, sse, frames, hbTick, srv>>

(***************************************************************************)
(* Events (sdk: GameStateEvent, GamePickEvent, GameCompleteEvent).  The    *)
(* field round of a pick event is history: the Go GamePickEvent carries    *)
(* the pick alone; round records the game it was published for.            *)
(***************************************************************************)
StateEvent(id, ps) == [type |-> "game:state", round |-> id, picks |-> ps]
PickEvent(id, v) == [type |-> "game:pick", round |-> id, pick |-> v]
CompleteEvent(id) == [type |-> "game:complete", round |-> id]

(***************************************************************************)
(* Store.  table holds the rows in creation order.                         *)
(***************************************************************************)
NotFound == "ErrNotFound"
StoreError == "persistence error"

StoredIDs == {table[k].ID : k \in 1..Len(table)}

Row(id) == table[CHOOSE k \in 1..Len(table) : table[k].ID = id]

MaxID(ids) == CHOOSE m \in ids : \A n \in ids : n <= m

\* GetLatestGame: ORDER BY game_id DESC LIMIT 1; sql.ErrNoRows -> ErrNotFound.
StoreGetLatestGame ==
    IF table = <<>> THEN [err |-> NotFound, game |-> [ID |-> 0, Picks |-> <<>>]]
    ELSE [err |-> "", game |-> Row(MaxID(StoredIDs))]

\* A game built with its picks in another order than the one revealed.
NewGameReversed(id, ps) == [ID |-> id, Picks |-> [k \in 1..Len(ps) |-> ps[Len(ps) + 1 - k]]]

\* domain.NewGame
NewGame(id, ps) == [ID |-> id, Picks |-> ps]

\* CreateGame: INSERT INTO games; game_id is UNIQUE, so an id already stored
\* makes the insert fail.
StoreCreateGame(game) ==
    /\ game.ID \notin StoredIDs
    /\ table' = Append(table, game)

(***************************************************************************)
(* Engine                                                                  *)
(***************************************************************************)
\* the conversion uint8(x)
Uint8(x) == x % 256

\* generatePicks: pool[i] = uint8(i + 1), here with positions 1..n
Pool(n) == [k \in 1..n |-> Uint8(k)]

Swap(p, i, j) == [p EXCEPT ![i] = p[j], ![j] = p[i]]

\* generatePicks: the Fisher-Yates loop, i from the last position down to the
\* second; js[i] is the position drawn by rand.Int for step i (1 <= js[i] <= i).
\* Shuffle(p, js, hi, lo) runs the steps i = hi, hi - 1, ..., lo in that order
\* (split in halves, and with the first half computed before the second is
\* entered, which keeps the nesting of the evaluation shallow; a swap never
\* changes the length).
RECURSIVE Shuffle(_, _, _, _)
Shuffle(p, js, hi, lo) ==
    IF hi < lo THEN p
    ELSE IF hi = lo THEN Swap(p, hi, js[hi])
    ELSE LET mid == (hi + lo) \div 2
             q == Shuffle(p, js, hi, mid + 1)
         IN  IF Len(q) = Len(p) THEN Shuffle(q, js, mid, lo) ELSE q

\* The outcomes of the draws of rand.Int for a pool of n numbers: every one of
\* them for n up to MaxPool; for a larger pool the two in which only the first
\* draw may swap: it leaves the last number in place, or takes it to the front.
RngOutputs(n) ==
    IF n <= MaxPool
    THEN {js \in [2..n -> 1..n] : \A i \in 2..n : js[i] <= i}
    ELSE {[i \in 2..n |-> IF i = n THEN j ELSE i] : j \in {1, n}}

\* generatePicks: pool[:PickCount] after the shuffle
generatePicks(cfg, js) ==
    SubSeq(Shuffle(Pool(cfg.MaxNumber), js, cfg.MaxNumber, 2), 1, cfg.PickCount)

EngineInit ==
    /\ config = EngineConfig
    /\ epc = "new"
    /\ running = FALSE
    /\ rootCtx = "live"
    /\ picks = <<>>
    /\ nextID = 0
    /\ idx = 0

\* Run, entry: e.running.Store(true).
EngineRun ==
    /\ epc = "new"
    /\ epc' = "loop"
    /\ running' = TRUE
    /\ UNCHANGED <<config, rootCtx, picks, nextID, idx>>

\* Run returns: the deferred e.running.Store(false).
RunReturn ==
    /\ epc' = "stopped"
    /\ running' = FALSE

\* Run, the loop's select: "case <-ctx.Done()" returns.
EngineLoopDone ==
    /\ epc = "loop"
    /\ rootCtx = "cancelled"
    /\ RunReturn
    /\ UNCHANGED <<config, rootCtx, picks, nextID, idx>>

\* Run, the loop's select: "default" calls runGame, which starts with
\* generatePicks.
EngineLoopRunGame ==
    /\ epc = "loop"
    /\ rootCtx = "live"
    /\ Len(table) < MaxRounds
    /\ \E js \in RngOutputs(config.MaxNumber) : picks' = generatePicks(config, js)
    /\ epc' = "getLatest"
    /\ nextID' = 0
    /\ idx' = 0
    /\ UNCHANGED <<config, running, rootCtx>>

\* A Run that returns on every error of runGame.
RunGameFailedReturns == RunReturn

\* runGame returned err to Run: return when ctx.Err() != nil, else log the
\* failed cycle and go round the loop.
RunGameFailed ==
    IF rootCtx = "cancelled"
    THEN RunReturn
    ELSE epc' = "warn" /\ running' = running

\* Run: e.logger.Warn("Game cycle failed"), then the next iteration of the loop.
EngineWarn ==
    /\ epc = "warn"
    /\ epc' = "loop"
    /\ UNCHANGED <<config, running, rootCtx, picks, nextID, idx>>

\* runGame: GetLatestGame fails with an error other than ErrNotFound.
EngineGetLatestFails ==
    /\ epc = "getLatest"
    /\ RunGameFailed
    /\ UNCHANGED <<config, rootCtx, picks, nextID, idx>>

\* The next id taken two above the latest one.
EngineGetLatestSkip ==
    /\ epc = "getLatest"
    /\ LET r == StoreGetLatestGame
       IN nextID' = IF r.err = NotFound THEN 1 ELSE r.game.ID + 2
    /\ epc' = "create"
    /\ UNCHANGED <<config, running, rootCtx, picks, idx>>

\* runGame: nextID = 1, or latestGame.ID + 1 when there is a latest game.
EngineGetLatest ==
    /\ epc = "getLatest"
    /\ LET r == StoreGetLatestGame
       IN nextID' = IF r.err = NotFound THEN 1 ELSE r.game.ID + 1
    /\ epc' = "create"
    /\ UNCHANGED <<config, running, rootCtx, picks, idx>>

\* A failed CreateGame whose error is not returned: runGame goes on.
EngineCreateErrorIgnored ==
    /\ epc = "create"
    /\ epc' = "state0"
    /\ UNCHANGED <<config, running, rootCtx, picks, nextID, idx>>

\* runGame: CreateGame fails.
EngineCreateFails ==
    /\ epc = "create"
    /\ RunGameFailed
    /\ UNCHANGED <<config, rootCtx, picks, nextID, idx>>

\* runGame: game := domain.NewGame(nextID, picks); CreateGame succeeds.
\* The histories recv and drops are kept per round: they start afresh here.
EngineCreate ==
    /\ epc = "create"
    /\ StoreCreateGame(NewGame(nextID, picks))
    /\ epc' = "state0"
    /\ recv' = [c \in Chans |-> <<>>]
    /\ drops' = [c \in Chans |-> {}]
    /\ UNCHANGED <<config, running, rootCtx, picks, nextID, idx>>
    /\ UNCHANGED <<subscribers, chanState, buf, ctx, pub, log>>

\* the round being played: the latest one created
CurrentRound == IF table = <<>> THEN 0 ELSE table[Len(table)].ID

\* A subscriber of the engine's events receives the next buffered event; recv
\* keeps the events of the current round only.
SubscriberReceive(c) ==
    /\ chanState[c] # "none"
    /\ buf[c] # <<>>
    /\ recv' = [recv EXCEPT ![c] =
                   IF Head(buf[c]).round = CurrentRound THEN Append(@, Head(buf[c])) ELSE @]
    /\ buf' = [buf EXCEPT ![c] = Tail(@)]
    /\ UNCHANGED <<subscribers, chanState, ctx, pub, log, drops>>

\* The state event after a pick built from picks[:i] instead of picks[:i+1].
EngineEventStalePrefix ==
    CASE epc = "state0" -> StateEvent(nextID, <<>>)
      [] epc = "pick" -> PickEvent(nextID, picks[idx + 1])
      [] epc = "state" -> StateEvent(nextID, SubSeq(picks, 1, idx))
      [] epc = "complete" -> CompleteEvent(nextID)

\* The event the engine hands to Broadcast at each of its broadcast calls.
EngineEvent ==
    CASE epc = "state0" -> StateEvent(nextID, <<>>)
      [] epc = "pick" -> PickEvent(nextID, picks[idx + 1])
      [] epc = "state" -> StateEvent(nextID, SubSeq(picks, 1, idx + 1))
      [] epc = "complete" -> CompleteEvent(nextID)

\* Where runGame goes on when a Broadcast call has returned.
AfterBroadcast ==
    CASE epc = "state0" -> IF Len(picks) = 0 THEN "complete" ELSE "draw"
      [] epc = "pick" -> "state"
      [] epc = "state" -> IF idx + 1 < Len(picks) THEN "draw" ELSE "complete"
      [] epc = "complete" -> "wait"

\* runGame: BroadcastState / BroadcastPick / BroadcastComplete call
\* Broker.Publish.
EngineBroadcast ==
    /\ epc \in {"state0", "pick", "state", "complete"}
    /\ PublishBegin(EngineEvent)
    /\ UNCHANGED engineVars

\* Broker.Publish returns to runGame.
EngineBroadcastReturn ==
    /\ epc \in {"state0", "pick", "state", "complete"}
    /\ PublishReturn
    /\ epc' = AfterBroadcast
    /\ idx' = IF epc = "state" THEN idx + 1 ELSE idx
    /\ UNCHANGED <<subscribers, chanState, buf, ctx, log, recv, drops>>
    /\ UNCHANGED <<config, running, rootCtx, picks, nextID>>

\* runGame, draw loop select: "case <-time.After(pickInterval)".
EngineDrawTick ==
    /\ epc = "draw"
    /\ epc' = "pick"
    /\ UNCHANGED <<config, running, rootCtx, picks, nextID, idx>>

\* runGame, draw loop select: "case <-ctx.Done()": return ctx.Err().
EngineDrawDone ==
    /\ epc = "draw"
    /\ rootCtx = "cancelled"
    /\ RunReturn
    /\ UNCHANGED <<config, rootCtx, picks, nextID, idx>>

\* runGame, wait select: "case <-time.After(waitDuration)": return nil.
EngineWaitTick ==
    /\ epc = "wait"
    /\ epc' = "loop"
    /\ UNCHANGED <<config, running, rootCtx, picks, nextID, idx>>

\* runGame, wait select: "case <-ctx.Done()": return ctx.Err().
EngineWaitDone ==
    /\ epc = "wait"
    /\ rootCtx = "cancelled"
    /\ RunReturn
    /\ UNCHANGED <<config, rootCtx, picks, nextID, idx>>

\* The context given to Run is cancelled (signal.NotifyContext).
CancelRoot ==
    /\ rootCtx = "live"
    /\ rootCtx' = "cancelled"
    /\ UNCHANGED <<config, epc, running, picks, nextID, idx>>

(***************************************************************************)
(* GameService                                                             *)
(***************************************************************************)
NoResponse == [op |-> "none"]

ServiceInit ==
    /\ activeGameID = 0
    /\ resp = NoResponse

\* Store.GetGame: the row with that id, or ErrNotFound.
StoreGetGame(id) ==
    IF id \in StoredIDs THEN [err |-> "", game |-> Row(id)]
    ELSE [err |-> NotFound, game |-> [ID |-> 0, Picks |-> <<>>]]

Min(ids) == CHOOSE m \in ids : \A n \in ids : m <= n

RECURSIVE Ascending(_)
Ascending(ids) ==
    IF ids = {} THEN <<>>
    ELSE <<Row(Min(ids))>> \o Ascending(ids \ {Min(ids)})

Take(sq, n) == SubSeq(sq, 1, IF Len(sq) < n THEN Len(sq) ELSE n)

StoreListGamesStrict(startID, limit) ==
    {Take(Ascending({id \in StoredIDs : id > startID}), limit)}

\* Store.ListGames, the results it can give.
\*   sqlite: WHERE game_id >= start ORDER BY game_id LIMIT limit.
\*   mock:   the games with ID > startID in the order the map is ranged over,
\*           the loop breaking once limit of them are taken.
StoreListGames(startID, limit) ==
    IF storeKind = "sqlite"
    THEN {Take(Ascending({id \in StoredIDs : id >= startID}), limit)}
    ELSE LET ids == {id \in StoredIDs : id > startID}
             n == IF Cardinality(ids) < limit THEN Cardinality(ids) ELSE limit
         IN  {[k \in 1..n |-> Row(f[k])] :
                 f \in {g \in [1..n -> ids] : \A a, b \in 1..n : g[a] = g[b] => a = b}}

\* GetGame / ListGames: if game.ID == activeGameID then game.Picks = nil.
Redact(g, activeID) ==
    IF g.ID = activeID THEN [g EXCEPT !.Picks = <<>>] ELSE g

\* The assignment Picks = nil is made to the object the store returned.  The
\* sqlite store builds a fresh object per read (rowToGame); the mock store
\* returns the pointer it keeps in its map, so the assignment changes the
\* stored game.
StoreAfterReturn(games) ==
    IF storeKind = "sqlite" THEN table
    ELSE [k \in 1..Len(table) |->
            IF \E i \in 1..Len(games) : games[i].ID = table[k].ID
            THEN games[CHOOSE i \in 1..Len(games) : games[i].ID = table[k].ID]
            ELSE table[k]]

\* The result of a call, with the call's arguments.
Response(op, args, err, games) == [op |-> op, args |-> args, err |-> err, games |-> games]

\* SetActiveGameID.
SetActiveGameID(id) ==
    /\ activeGameID' = id
    /\ UNCHANGED resp

\* GameService.GetGame.
ServiceGetGame(id) ==
    /\ resp = NoResponse
    /\ \E storeFails \in BOOLEAN :
         LET r == IF storeFails THEN [err |-> StoreError] ELSE StoreGetGame(id)
         IN  IF r.err # ""
             THEN /\ resp' = Response("GetGame", <<id>>, r.err, <<>>)
                  /\ table' = table
             ELSE LET game == Redact(r.game, activeGameID)
                  IN /\ resp' = Response("GetGame", <<id>>, "", <<game>>)
                     /\ table' = StoreAfterReturn(<<game>>)
    /\ UNCHANGED <<activeGameID, storeKind>>

\* GameService.ListGames.
ServiceListGames(cursor, limit) ==
    /\ resp = NoResponse
    /\ \E storeFails \in BOOLEAN :
         IF storeFails
         THEN /\ resp' = Response("ListGames", <<cursor, limit>>, StoreError, <<>>)
              /\ table' = table
         ELSE \E found \in StoreListGames(cursor, limit) :
                 LET games == [k \in 1..Len(found) |-> Redact(found[k], activeGameID)]
                 IN /\ resp' = Response("ListGames", <<cursor, limit>>, "", games)
                    /\ table' = StoreAfterReturn(games)
    /\ UNCHANGED <<activeGameID, storeKind>>

\* The caller of GetGame / ListGames has the result.
ServiceReturn ==
    /\ resp # NoResponse
    /\ resp' = NoResponse
    /\ UNCHANGED <<activeGameID, storeVars>>

\* GameService.CreateGame: store.CreateGame.  sqlite: INSERT, game_id is
\* UNIQUE; mock: m.games[game.ID] = game.
ServiceCreateGame(game) ==
    /\ IF storeKind = "sqlite" \/ game.ID \notin StoredIDs
       THEN StoreCreateGame(game)
       ELSE table' = [k \in 1..Len(table) |->
                        IF table[k].ID = game.ID THEN game ELSE table[k]]
    /\ UNCHANGED storeKind

(***************************************************************************)
(* GET /api/v1/games (internal/http/games.go, handleListGames)             *)
(***************************************************************************)
\* largest id of a stored round where lists are paged
MaxStored == 5

\* limit must be between 1 and 100
MaxLimitParam == 100

NoListResponse == [status |-> 0]
NoWalk == [on |-> FALSE]

ListInit ==
    /\ lresp = NoListResponse
    /\ walk = NoWalk

\* mockStore.ListGames of the handler tests: the ids startID+1 ..
\* startID+limit+1 are looked up in turn, and the loop breaks once limit games
\* are taken (after the first game when limit < 1).
MockListGames(startID, limit) ==
    Take(Ascending({id \in StoredIDs : startID + 1 <= id /\ id <= startID + limit + 1}),
         IF limit < 1 THEN 1 ELSE limit)

ServerListGamesUnfiltered(startID, limit) == StoreListGames(0, limit)

\* the Store the server was built over: the sqlite store, or the mockStore of
\* the handler tests
ServerListGames(startID, limit) ==
    IF storeKind = "handlerMock" THEN {MockListGames(startID, limit)}
    ELSE StoreListGames(startID, limit)

\* the cursor of the next page: the id after the last game of this page
NextCursorAtLast(games) == <<games[Len(games)].ID>>
NextCursor(games) == <<games[Len(games)].ID + 1>>

\* the limit handed to the service: one more than the page
FetchLimit(limit) == limit + 1

\* handleListGames from the service's answer on: hasMore, games[:limit],
\* next_cursor (<<>>: absent).
ListResponse(cursor, limit, games) ==
    LET hasMore == Len(games) > limit
        page == IF hasMore THEN Take(games, limit) ELSE games
    IN  [status |-> 200, cursor |-> cursor, limit |-> limit, games |-> page,
         next_cursor |-> IF hasMore /\ Len(page) > 0 THEN NextCursor(page) ELSE <<>>]

ListError(status, cursor, limit) ==
    [status |-> status, cursor |-> cursor, limit |-> limit, games |-> <<>>, next_cursor |-> <<>>]

\* handleListGames: the whole handler for ?cursor=..&limit=...
HandleListGames(cursor, limit) ==
    /\ resp = NoResponse
    /\ IF cursor < 0 \/ limit < 1 \/ limit > MaxLimitParam
       THEN /\ lresp' = ListError(400, cursor, limit)
            /\ table' = table
       ELSE \E storeFails \in BOOLEAN :
              IF storeFails
              THEN /\ lresp' = ListError(500, cursor, limit)
                   /\ table' = table
              ELSE \E found \in ServerListGames(cursor, FetchLimit(limit)) :
                     LET games == [k \in 1..Len(found) |-> Redact(found[k], activeGameID)]
                     IN /\ lresp' = ListResponse(cursor, limit, games)
                        /\ table' = StoreAfterReturn(games)
    /\ UNCHANGED <<activeGameID, resp, storeKind>>

IDsOf(games) == [k \in 1..Len(games) |-> games[k].ID]

\* A client pages through the list: it asks for ?cursor=from&limit=limit and
\* then follows next_cursor until a page comes without one.
WalkStart(from, limit) ==
    /\ walk = NoWalk
    /\ walk' = [on |-> TRUE, from |-> from, limit |-> limit, cursor |-> <<from>>,
                seen |-> <<>>, pages |-> 0, start |-> StoredIDs]
    /\ UNCHANGED <<lresp, storeVars, serviceVars>>

WalkStep ==
    /\ walk.on
    /\ walk.cursor # <<>>
    /\ HandleListGames(walk.cursor[1], walk.limit)
    /\ walk' = IF lresp'.status = 200
               THEN [walk EXCEPT !.cursor = lresp'.next_cursor,
                                 !.seen = @ \o IDsOf(lresp'.games),
                                 !.pages = @ + 1]
               ELSE walk

WalkEnd ==
    /\ walk.on
    /\ walk.cursor = <<>> \/ lresp.status \in {400, 500}
    /\ walk' = NoWalk
    /\ lresp' = NoListResponse
    /\ UNCHANGED <<storeVars, serviceVars>>

\* The engine persists the next round while a client pages.
ListCreateNext ==
    /\ LET id == IF table = <<>> THEN 1 ELSE MaxID(StoredIDs) + 1
       IN  /\ id <= MaxStored
           /\ ServiceCreateGame(NewGame(id, <<1, 2>>))
    /\ UNCHANGED <<serviceVars, lresp, walk>>

(***************************************************************************)
(* GetClientIP on the text of the headers (pkg/httpx/response.go).  A      *)
(* string is the sequence of its characters; <<>> is the empty string,     *)
(* which is also what Header.Get gives for an absent header.               *)
(***************************************************************************)
\* the longest header value tried
MaxHeaderLen == 3

HeaderChars == {" ", ",", "a", "b"}

Texts(chars, n) == UNION {[1..k -> chars] : k \in 0..n}

\* RemoteAddr: host:port, a host alone, an IPv6 host in brackets with a port,
\* and an IPv6 host without brackets or port.
RemoteAddrs ==
    {<<"a", ":", "8">>, <<"a">>, <<"[", "a", ":", "b", "]", ":", "8">>, <<"a", ":", "b", ":", "8">>}

IPRequests == [xff : Texts(HeaderChars, MaxHeaderLen), xri : Texts({" ", "a"}, 2), remote : RemoteAddrs]

\* indexByte(s, c): the index of the first c in s counted from 0, or -1.
indexByte(s, c) ==
    IF \E i \in 1..Len(s) : s[i] = c
    THEN (CHOOSE i \in 1..Len(s) : s[i] = c /\ \A j \in 1..(i - 1) : s[j] # c) - 1
    ELSE -1

RECURSIVE TrimStart(_, _)
TrimStart(s, start) ==
    IF start < Len(s) /\ s[start + 1] = " " THEN TrimStart(s, start + 1) ELSE start

RECURSIVE TrimEnd(_, _, _)
TrimEnd(s, start, end) ==
    IF end > start /\ s[end] = " " THEN TrimEnd(s, start, end - 1) ELSE end

\* A trimSpaces that leaves the string as it is.
trimNothing(s) == s

\* trimSpaces(s): s[start:end] after the two loops.
trimSpaces(s) ==
    LET start == TrimStart(s, 0)
        end == TrimEnd(s, start, Len(s))
    IN  SubSeq(s, start + 1, end)

\* net.SplitHostPort: the host before the last colon, without its brackets;
\* an error when there is no colon (missing port), when a host without
\* brackets holds a colon (too many colons), or when the brackets are not
\* followed by the colon.
SplitHostPort(addr) ==
    LET colons == {i \in 1..Len(addr) : addr[i] = ":"}
        last == CHOOSE i \in colons : \A j \in colons : j <= i
    IN  IF colons = {} THEN [err |-> TRUE, host |-> <<>>]
        ELSE IF addr[1] = "["
        THEN IF last > 2 /\ addr[last - 1] = "]"
             THEN [err |-> FALSE, host |-> SubSeq(addr, 2, last - 2)]
             ELSE [err |-> TRUE, host |-> <<>>]
        ELSE IF \E i \in colons : i < last
        THEN [err |-> TRUE, host |-> <<>>]
        ELSE [err |-> FALSE, host |-> SubSeq(addr, 1, last - 1)]

\* GetClientIP(r), on the text.
GetClientIPText(r) ==
    LET comma == indexByte(r.xff, ",")
        first == trimSpaces(IF comma # -1 THEN SubSeq(r.xff, 1, comma) ELSE r.xff)
        split == SplitHostPort(r.remote)
    IN  IF r.xff # <<>> /\ first # <<>> THEN first
        ELSE IF r.xri # <<>> THEN trimSpaces(r.xri)
        ELSE IF split.err THEN r.remote
        ELSE split.host

NoKey == <<"none">>

ClientIPInit ==
    /\ ipReq = [xff |-> <<>>, xri |-> <<>>, remote |-> <<"a">>]
    /\ ipKey = NoKey

\* RateLimit: ip := GetClientIP(r).
ClientIPCall ==
    /\ ipKey = NoKey
    /\ ipKey' = GetClientIPText(ipReq)
    /\ UNCHANGED ipReq

(***************************************************************************)
(* SSE on the wire and the SDK client (sdk SSEClient, httpx SSEStream).    *)
(*                                                                         *)
(* A text is a sequence of tokens: the field names "event:" and "data:",   *)
(* the space, the line feed, an event type, the braces of a JSON object    *)
(* and its members.  An event is its type and its payload, the payload a   *)
(* record with the fields of the three event structs (zero where the       *)
(* struct has none).                                                       *)
(***************************************************************************)
\* the most frames the server writes to one connection
MaxFrames == 2
\* the largest max_retries tried
MaxRetriesCfg == 2
\* the most requests a client sends
MaxAttempts == 3

Tok(c) == [c |-> c, k |-> "", v |-> <<>>]
Member(k, v) == [c |-> "member", k |-> k, v |-> v]
SP == Tok(" ")
LF == Tok("\n")

EventTypes == {"game:state", "game:pick", "game:complete", "game:heartbeat"}

ZeroPayload == [game_id |-> 0, picks |-> <<>>, next_game |-> 0, pick |-> 0]

\* the fields of the struct an event type is decoded into
StructFields(type) ==
    CASE type = "game:state" -> <<"game_id", "picks", "next_game">>
      [] type = "game:pick" -> <<"pick">>
      [] type = "game:complete" -> <<"game_id">>
      [] OTHER -> <<>>

FieldValue(p, k) ==
    CASE k = "game_id" -> <<p.game_id>>
      [] k = "picks" -> p.picks
      [] k = "next_game" -> <<p.next_game>>
      [] k = "pick" -> <<p.pick>>

\* The events the server sends: the data of BroadcastState, BroadcastPick,
\* BroadcastComplete, and the struct{}{} of SendHeartbeat.
WireEvents ==
    {[type |-> "game:state", payload |-> [ZeroPayload EXCEPT !.game_id = 1, !.picks = ps, !.next_game = 1]] :
        ps \in {<<>>, <<2, 1>>}}
    \cup {[type |-> "game:pick", payload |-> [ZeroPayload EXCEPT !.pick = 2]],
          [type |-> "game:complete", payload |-> [ZeroPayload EXCEPT !.game_id = 1]],
          [type |-> "game:heartbeat", payload |-> ZeroPayload]}

\* json.Marshal of the data of an event: the object with the members of its
\* struct, on one line.
Marshal(e) ==
    <<Tok("{")>>
    \o [i \in 1..Len(StructFields(e.type)) |->
            Member(StructFields(e.type)[i], FieldValue(e.payload, StructFields(e.type)[i]))]
    \o <<Tok("}")>>

\* json.Unmarshal into the struct of the type: an error unless the text is an
\* object; members the struct does not have are ignored, fields without a
\* member stay zero.
Unmarshal(type, text) ==
    IF Len(text) < 2 \/ text[1] # Tok("{") \/ text[Len(text)] # Tok("}")
       \/ \E i \in 2..(Len(text) - 1) : text[i].c # "member"
    THEN [err |-> TRUE, payload |-> ZeroPayload]
    ELSE LET has(k) == \E i \in 2..(Len(text) - 1) : text[i].k = k
             val(k) == text[CHOOSE i \in 2..(Len(text) - 1) :
                              text[i].k = k /\ \A j \in (i + 1)..(Len(text) - 1) : text[j].k # k].v
             known(k) == \E i \in 1..Len(StructFields(type)) : StructFields(type)[i] = k
             num(k) == IF known(k) /\ has(k) THEN val(k)[1] ELSE 0
         IN  [err |-> FALSE,
              payload |-> [game_id |-> num("game_id"),
                           picks |-> IF known("picks") /\ has("picks") THEN val("picks") ELSE <<>>,
                           next_game |-> num("next_game"),
                           pick |-> num("pick")]]

\* SSEStream.Send: fmt.Fprintf(w, "event: %s\ndata: %s\n\n", eventType, jsonData).
Send(e) ==
    <<Tok("event:"), SP, Tok(e.type), LF, Tok("data:"), SP>> \o Marshal(e) \o <<LF, LF>>

RECURSIVE Stream(_)
Stream(es) == IF es = <<>> THEN <<>> ELSE Send(Head(es)) \o Stream(Tail(es))

\* strings.TrimSpace
RECURSIVE TrimSpace(_)
TrimSpace(s) ==
    IF s = <<>> THEN s
    ELSE IF Head(s) \in {SP, LF} THEN TrimSpace(Tail(s))
    ELSE IF s[Len(s)] \in {SP, LF} THEN TrimSpace(SubSeq(s, 1, Len(s) - 1))
    ELSE s

\* bufio.Scanner with ScanLines: the next line without its line feed, and what
\* is left; a last line without line feed is a line too.
HasLine(b) == b # <<>>
LineEnd(b) ==
    IF \E i \in 1..Len(b) : b[i] = LF
    THEN CHOOSE i \in 1..Len(b) : b[i] = LF /\ \A j \in 1..(i - 1) : b[j] # LF
    ELSE Len(b) + 1
NextLine(b) == SubSeq(b, 1, LineEnd(b) - 1)
AfterLine(b) == SubSeq(b, LineEnd(b) + 1, Len(b))

\* dispatchEvent: the call it makes on the EventHandler, if any.
dispatchEvent(type, text) ==
    IF type = <<Tok("game:heartbeat")>> THEN <<[fn |-> "game:heartbeat", arg |-> ZeroPayload]>>
    ELSE IF \E t \in {"game:state", "game:pick", "game:complete"} : type = <<Tok(t)>>
    THEN IF Unmarshal(type[1].c, text).err THEN <<>>
         ELSE <<[fn |-> type[1].c, arg |-> Unmarshal(type[1].c, text).payload]>>
    ELSE <<>>

\* A parser that keeps its data buffer over the end of an event.
ParseLineKeepsData(line, ty, da) ==
    IF line = <<>>
    THEN [eventType |-> <<>>, data |-> da,
          call |-> IF ty # <<>> /\ da # <<>> THEN dispatchEvent(ty, da) ELSE <<>>]
    ELSE IF line[1] = Tok("event:")
    THEN [eventType |-> TrimSpace(Tail(line)), data |-> da, call |-> <<>>]
    ELSE IF line[1] = Tok("data:")
    THEN [eventType |-> ty,
          data |-> (IF da # <<>> THEN da \o <<LF>> ELSE da) \o TrimSpace(Tail(line)),
          call |-> <<>>]
    ELSE [eventType |-> ty, data |-> da, call |-> <<>>]

\* connect, the body of the scan loop for one line: the new eventType and
\* data, and the call dispatched.
ParseLine(line, ty, da) ==
    IF line = <<>>
    THEN [eventType |-> <<>>, data |-> <<>>,
          call |-> IF ty # <<>> /\ da # <<>> THEN dispatchEvent(ty, da) ELSE <<>>]
    ELSE IF line[1] = Tok("event:")
    THEN [eventType |-> TrimSpace(Tail(line)), data |-> da, call |-> <<>>]
    ELSE IF line[1] = Tok("data:")
    THEN [eventType |-> ty,
          data |-> (IF da # <<>> THEN da \o <<LF>> ELSE da) \o TrimSpace(Tail(line)),
          call |-> <<>>]
    ELSE [eventType |-> ty, data |-> da, call |-> <<>>]

OnConnect == [fn |-> "OnConnect", arg |-> ZeroPayload]
OnDisconnect == [fn |-> "OnDisconnect", arg |-> ZeroPayload]

NoSent == [frames |-> <<>>, delivered |-> 0]

\* NewSSEClient; Connect is not called yet.
SdkInit ==
    /\ maxRetries = 0
    /\ cctx = "live"
    /\ cpc = "idle"
    /\ retries = 0
    /\ cerr = ""
    /\ body = <<>>
    /\ bodyErr = ""
    /\ eventType = <<>>
    /\ data = <<>>
    /\ attempts = 0
    /\ sent = NoSent
    /\ calls = <<>>

\* Connect is called: retries := 0.
SdkConnectCall ==
    /\ cpc = "idle"
    /\ cpc' = "connect"
    /\ retries' = 0
    /\ UNCHANGED <<maxRetries, cctx, cerr, body, bodyErr, eventType, data, attempts, sent, calls>>

\* A Do that sends the request whatever the state of the context.
SdkDoIgnoresContext(ok, es, n, rerr) ==
    /\ cpc = "connect"
    /\ attempts < MaxAttempts
    /\ attempts' = attempts + 1
    /\ IF ok
       THEN /\ calls' = Append(calls, OnConnect)
            /\ body' = SubSeq(Stream(es), 1, n)
            /\ bodyErr' = rerr
            /\ sent' = [frames |-> es, delivered |-> n]
            /\ eventType' = <<>>
            /\ data' = <<>>
            /\ cpc' = "stream"
            /\ UNCHANGED cerr
       ELSE /\ cerr' = "connecting"
            /\ cpc' = "check"
            /\ UNCHANGED <<body, bodyErr, eventType, data, sent, calls>>
    /\ UNCHANGED <<maxRetries, cctx, retries>>

\* connect, up to the scan loop.  httpClient.Do with a cancelled context
\* returns the context's error and sends nothing.  Otherwise the request is
\* sent: it fails or is answered with another status than 200, or the server
\* answers 200, OnConnect is called, and the server writes the frames es, of
\* which the first n tokens arrive before the stream ends with bodyErr.
SdkDo(ok, es, n, rerr) ==
    /\ cpc = "connect"
    /\ IF cctx = "cancelled"
       THEN /\ cerr' = "connecting"
            /\ cpc' = "check"
            /\ UNCHANGED <<body, bodyErr, eventType, data, attempts, sent, calls>>
       ELSE /\ attempts < MaxAttempts
            /\ attempts' = attempts + 1
            /\ IF ok
               THEN /\ calls' = Append(calls, OnConnect)
                    /\ body' = SubSeq(Stream(es), 1, n)
                    /\ bodyErr' = rerr
                    /\ sent' = [frames |-> es, delivered |-> n]
                    /\ eventType' = <<>>
                    /\ data' = <<>>
                    /\ cpc' = "stream"
                    /\ UNCHANGED cerr
               ELSE /\ cerr' = "connecting"
                    /\ cpc' = "check"
                    /\ UNCHANGED <<body, bodyErr, eventType, data, sent, calls>>
    /\ UNCHANGED <<maxRetries, cctx, retries>>

\* connect, scanner.Scan() gives a line: one turn of the scan loop.
SdkScanLine ==
    LET r == ParseLine(NextLine(body), eventType, data) IN
    /\ cpc = "stream"
    /\ HasLine(body)
    /\ body' = AfterLine(body)
    /\ eventType' = r.eventType
    /\ data' = r.data
    /\ calls' = calls \o r.call
    /\ UNCHANGED <<maxRetries, cctx, cpc, retries, cerr, bodyErr, attempts, sent>>

\* connect, scanner.Scan() gives false: the stream has ended; connect returns
\* nil after EOF and the read error otherwise.
SdkScanEnd ==
    /\ cpc = "stream"
    /\ ~HasLine(body)
    /\ cerr' = IF bodyErr = "" THEN "" ELSE "reading stream"
    /\ cpc' = "check"
    /\ eventType' = <<>>
    /\ data' = <<>>
    /\ UNCHANGED <<maxRetries, cctx, retries, body, bodyErr, attempts, sent, calls>>

\* Connect after connect has returned: return ctx.Err() when the context is
\* done; else OnDisconnect(err), retries++, and the max-retries return when
\* maxRetries > 0 && retries >= maxRetries.
SdkCheck ==
    /\ cpc = "check"
    /\ IF cctx = "cancelled"
       THEN /\ cpc' = "returned"
            /\ cerr' = "context canceled"
            /\ UNCHANGED <<retries, calls>>
       ELSE /\ calls' = Append(calls, OnDisconnect)
            /\ retries' = retries + 1
            /\ IF maxRetries > 0 /\ retries + 1 >= maxRetries
               THEN cpc' = "returned" /\ cerr' = "max retries"
               ELSE cpc' = "wait" /\ cerr' = cerr
    /\ UNCHANGED <<maxRetries, cctx, body, bodyErr, eventType, data, attempts, sent>>

\* Connect, select: "case <-ctx.Done()": return ctx.Err().
SdkWaitDone ==
    /\ cpc = "wait"
    /\ cctx = "cancelled"
    /\ cpc' = "returned"
    /\ cerr' = "context canceled"
    /\ UNCHANGED <<maxRetries, cctx, retries, body, bodyErr, eventType, data, attempts, sent, calls>>

\* Connect, select: "case <-time.After(c.reconnectDelay)": the next turn of
\* the loop.
SdkWaitDelay ==
    /\ cpc = "wait"
    /\ cpc' = "connect"
    /\ UNCHANGED <<maxRetries, cctx, retries, cerr, body, bodyErr, eventType, data, attempts, sent, calls>>

\* The caller cancels the context.  A read of the body in progress fails with
\* the context's error; what had arrived before may still be scanned.
SdkCancel(n) ==
    /\ cctx = "live"
    /\ cpc # "returned"
    /\ cctx' = "cancelled"
    /\ IF cpc = "stream"
       THEN /\ n <= Len(body)
            /\ body' = SubSeq(body, 1, n)
            /\ bodyErr' = "context canceled"
       ELSE /\ n = 0
            /\ UNCHANGED <<body, bodyErr>>
    /\ UNCHANGED <<maxRetries, cpc, retries, cerr, eventType, data, attempts, sent, calls>>

(***************************************************************************)
(* SpecBroker: the Broker with one publishing client (events 1, 2, 3, ...) *)
(***************************************************************************)
ClientPublish ==
    /\ Len(log) < MaxEvents
    /\ PublishBegin(Len(log) + 1)

ClientPublishReturn ==
    /\ PublishReturn
    /\ UNCHANGED <<subscribers, chanState, buf, ctx, log, recv, drops>>

BrokerOnly == UNCHANGED <<engineVars, storeVars, serviceVars, failed, created, limiterVars, httpVars, sseVars, listVars, ipVars, sdkVars>>

NextBroker ==
    \/ \E c \in Chans : Subscribe(c) /\ BrokerOnly
    \/ \E c \in Chans : Cancel(c) /\ BrokerOnly
    \/ \E c \in Chans : Cleanup(c) /\ BrokerOnly
    \/ ClientPublish /\ BrokerOnly
    \/ \E c \in Chans : PublishSend(c) /\ BrokerOnly
    \/ ClientPublishReturn /\ BrokerOnly
    \/ \E c \in Chans : Receive(c) /\ BrokerOnly

InitBroker ==
    /\ BrokerInit
    /\ EngineInit
    /\ storeKind = "sqlite"
    /\ table = <<>>
    /\ ServiceInit
    /\ failed = {}
    /\ created = <<>>
    /\ LimiterInit
    /\ HttpInit
    /\ SseInit
    /\ ListInit
    /\ ClientIPInit
    /\ SdkInit

SpecBroker == InitBroker /\ [][NextBroker]_vars

\* the events Publish has offered to channel c so far
Offered(c) == Len(recv[c]) + Len(buf[c]) + Cardinality(drops[c])

\* the last event (of the client's 1, 2, 3, ...) that Publish has taken to c
LastOffered(c) == IF pub.active /\ c \in pub.pending THEN Len(log) - 1 ELSE Len(log)

\* C1: Publish never blocks. While a Publish call is in progress its next step
\* can always be taken, whatever the fill level of any buffer and without any
\* subscriber receiving: each remaining channel can be served at once, and
\* with no channel left Publish returns.
C1_PublishNeverBlocks ==
    pub.active =>
        /\ \A c \in pub.pending : ENABLED PublishSend(c)
        /\ pub.pending = {} => ENABLED ClientPublishReturn

\* C1 witness: Publish is about to serve a subscriber that has never received
\* and whose buffer is full.
C1_Witness ==
    \E c \in Chans :
        /\ pub.active
        /\ c \in pub.pending
        /\ recv[c] = <<>>
        /\ Len(buf[c]) = BufferSize

\* Publish serves channel c in this step.
SendStep(c) == pub.active /\ c \in pub.pending /\ pub'.active /\ c \notin pub'.pending

\* C2, one step: the event is appended to the channel served when that holds
\* fewer than BufferSize unread events, a full buffer is left as it is, no
\* other buffer changes; Publish serves exactly the registered subscribers.
C2_Step ==
    /\ \A c \in Chans : SendStep(c) =>
          /\ c \in subscribers
          /\ Len(buf[c]) < BufferSize => buf'[c] = Append(buf[c], pub.event)
          /\ Len(buf[c]) >= BufferSize => buf'[c] = buf[c]
          /\ \A d \in Chans \ {c} : buf'[d] = buf[d]
    /\ (~pub.active /\ pub'.active) => pub'.pending = subscribers
    /\ (pub.active /\ ~pub'.active) => pub.pending = {}

\* C2, the unread subscriber: a registered subscriber that has not received
\* holds the first events offered to it, in order, up to BufferSize of them,
\* and exactly the later ones were dropped (BufferSize 2, publishes 1, 2, 3:
\* the buffer is 1, 2 and 3 is dropped).
C2_Unread ==
    \A c \in subscribers :
        (recv[c] = <<>> /\ Offered(c) > 0) =>
            LET first == LastOffered(c) - Offered(c) + 1
            IN /\ Len(buf[c]) = IF Offered(c) < BufferSize THEN Offered(c) ELSE BufferSize
               /\ buf[c] = [i \in 1..Len(buf[c]) |-> first + i - 1]
               /\ drops[c] = (first + Len(buf[c])) .. LastOffered(c)

\* C2: Publish(e) appends e to the buffer of exactly the registered
\* subscribers with room; a full buffer keeps its older events and loses e,
\* and the other subscribers are served all the same.
C2_PublishDelivery == [][C2_Step]_vars /\ []C2_Unread

\* C2 witness: an event was dropped for a subscriber that never received and
\* whose buffer is full, and the same event was delivered to another one.
C2_Witness ==
    \E c \in Chans, d \in Chans :
        /\ c # d
        /\ ~pub.active
        /\ recv[c] = <<>>
        /\ Len(buf[c]) = BufferSize
        /\ \E e \in drops[c] : \E i \in 1..Len(buf[d]) : buf[d][i] = e

(***************************************************************************)
(* Spec: Engine.Run, the Broker and its subscribers, the sqlite Store.     *)
(***************************************************************************)
EngineOnly == UNCHANGED <<brokerVars, storeVars, serviceVars, failed, created, limiterVars, httpVars, sseVars, listVars, ipVars, sdkVars>>

Next ==
    \/ EngineRun /\ EngineOnly
    \/ EngineLoopDone /\ EngineOnly
    \/ EngineLoopRunGame /\ EngineOnly
    \/ EngineGetLatestFails /\ EngineOnly
    \/ EngineGetLatest /\ EngineOnly
    \/ EngineCreateFails /\ EngineOnly
    \/ EngineWarn /\ EngineOnly
    \/ EngineCreate /\ UNCHANGED <<storeKind, serviceVars, failed, created, limiterVars, httpVars, sseVars, listVars, ipVars, sdkVars>>
    \/ EngineBroadcast /\ UNCHANGED <<storeVars, serviceVars, failed, created, limiterVars, httpVars, sseVars, listVars, ipVars, sdkVars>>
    \/ \E c \in Chans : PublishSend(c) /\ BrokerOnly
    \/ EngineBroadcastReturn /\ UNCHANGED <<storeVars, serviceVars, failed, created, limiterVars, httpVars, sseVars, listVars, ipVars, sdkVars>>
    \/ EngineDrawTick /\ EngineOnly
    \/ EngineDrawDone /\ EngineOnly
    \/ EngineWaitTick /\ EngineOnly
    \/ EngineWaitDone /\ EngineOnly
    \/ CancelRoot /\ EngineOnly
    \/ \E c \in EngineChans : Subscribe(c) /\ BrokerOnly
    \/ \E c \in Chans : Cancel(c) /\ BrokerOnly
    \/ \E c \in Chans : Cleanup(c) /\ BrokerOnly
    \/ \E c \in Chans : SubscriberReceive(c) /\ BrokerOnly

\* The store the program starts on: empty, or holding the round of an
\* earlier run.
InitialTables(cfg) == {<<>>, <<NewGame(1, generatePicks(cfg, [i \in 2..cfg.MaxNumber |-> i]))>>}

Init ==
    /\ BrokerInit
    /\ EngineInit
    /\ storeKind = "sqlite"
    /\ table \in InitialTables(EngineConfig)
    /\ ServiceInit
    /\ failed = {}
    /\ created = <<>>
    /\ LimiterInit
    /\ HttpInit
    /\ SseInit
    /\ ListInit
    /\ ClientIPInit
    /\ SdkInit

Spec == Init /\ [][Next]_vars

IsPrefix(s, t) == Len(s) <= Len(t) /\ s = SubSeq(t, 1, Len(s))

\* state(id, []), then pick(v_i), state(id, [v_1..v_i]) for each pick, then
\* complete(id)
Canonical(id, ps) ==
    <<StateEvent(id, <<>>)>>
    \o [k \in 1..2 * Len(ps) |->
          IF k % 2 = 1 THEN PickEvent(id, ps[(k + 1) \div 2])
          ELSE StateEvent(id, SubSeq(ps, 1, k \div 2))]
    \o <<CompleteEvent(id)>>

RECURSIVE CanonicalRounds(_)
CanonicalRounds(t) ==
    IF t = <<>> THEN <<>>
    ELSE Canonical(Head(t).ID, Head(t).Picks) \o CanonicalRounds(Tail(t))

\* the rounds this run of the engine created
CreatedRounds == SelectSeq(table, LAMBDA g : \E k \in 1..Len(log) : log[k].round = g.ID)

\* C3: the events published are, round after round, state(id, []), then for
\* each pick pick(v_i) followed by state(id, [v_1..v_i]), then complete(id);
\* a round's events start only after the complete of the round before.
C3_RoundOrder == IsPrefix(log, CanonicalRounds(CreatedRounds))

\* C3 witness: a first round was published to its complete and the next round
\* has published all its picks and its complete.
C3_Witness ==
    /\ Len(log) = 2 * (2 + 2 * config.PickCount)
    /\ log[Len(log)].type = "game:complete"

\* the current round's events channel c has been handed and not lost: those
\* its subscriber received, then those still buffered
Seen(c) == recv[c] \o SelectSeq(buf[c], LAMBDA e : e.round = CurrentRound)

\* the events of the current round that Publish has taken to channel c, had
\* c been registered throughout the round
RoundOffered(c) ==
    LET n == Cardinality({k \in 1..Len(log) : log[k].round = CurrentRound})
    IN IF pub.active /\ c \in pub.pending /\ pub.event.round = CurrentRound
       THEN n - 1 ELSE n

\* channel c was registered when the first event of the current round was
\* published
PresentAtStart(c) ==
    LET first == StateEvent(CurrentRound, <<>>)
    IN \/ first \in drops[c]
       \/ \E k \in 1..Len(Seen(c)) : Seen(c)[k] = first

CurrentCanonical == Canonical(CurrentRound, table[Len(table)].Picks)

\* C4 as amended: for a subscriber present before the round begins, the events
\* of the round it receives (or still has buffered) are, in order, the
\* sequence state(empty), pick(v1), state([v1]), ..., complete of the stored
\* picks without the events dropped for it on a full buffer: all of it when
\* nothing was dropped; while it stays registered every event published so far
\* is accounted for.
C4_SubscriberSequence ==
    \A c \in Chans :
        (table # <<>> /\ PresentAtStart(c)) =>
            LET k == Len(Seen(c)) + Cardinality(drops[c])
            IN /\ k <= Len(CurrentCanonical)
               /\ Seen(c) = SelectSeq(SubSeq(CurrentCanonical, 1, k), LAMBDA e : e \notin drops[c])
               /\ c \in subscribers => k = RoundOffered(c)

\* C4 witness: a subscriber present from the start of the round lost an event
\* on a full buffer and has received the round's complete.
C4_Witness ==
    \E c \in Chans :
        /\ table # <<>>
        /\ PresentAtStart(c)
        /\ drops[c] # {}
        /\ recv[c] # <<>>
        /\ recv[c][Len(recv[c])] = CompleteEvent(CurrentRound)

\* C4 as claimed: a subscriber present before the round begins, still
\* registered, that has received everything buffered once complete is
\* published, has received exactly the whole sequence.
C4_Original ==
    \A c \in subscribers :
        ( /\ table # <<>>
          /\ PresentAtStart(c)
          /\ ~pub.active
          /\ RoundOffered(c) = Len(CurrentCanonical)
          /\ buf[c] = <<>> )
        => recv[c] = CurrentCanonical

\* C5: every event published for a round finds that round in the store, with
\* all pick_count picks, the ones the events reveal; a round whose create
\* failed has no event.
C5_PersistBeforeBroadcast ==
    \A k \in 1..Len(log) :
        /\ log[k].round \in StoredIDs
        /\ Len(Row(log[k].round).Picks) = config.PickCount
        /\ log[k].type = "game:pick" =>
              \E i \in 1..config.PickCount : Row(log[k].round).Picks[i] = log[k].pick
        /\ log[k].type = "game:state" => IsPrefix(log[k].picks, Row(log[k].round).Picks)

\* C5 witness: a cycle failed at CreateGame (nothing stored, nothing
\* published) after an earlier round was stored and published.
C5_Witness ==
    /\ epc = "warn"
    /\ nextID = 2
    /\ 2 \notin StoredIDs
    /\ Len(log) > 0
    /\ \A k \in 1..Len(log) : log[k].round = 1

(***************************************************************************)
(* SpecEngine: Engine.Run and the sqlite Store over every configuration of *)
(* the model, the broker without subscribers; failed keeps the ids whose   *)
(* CreateGame failed.                                                      *)
(***************************************************************************)
NoSubscriber == UNCHANGED <<brokerVars, storeVars, serviceVars, failed, created, limiterVars, httpVars, sseVars, listVars, ipVars, sdkVars>>

NextEngine ==
    \/ EngineRun /\ NoSubscriber
    \/ EngineLoopDone /\ NoSubscriber
    \/ EngineLoopRunGame /\ NoSubscriber
    \/ EngineGetLatestFails /\ NoSubscriber
    \/ EngineGetLatest /\ NoSubscriber
    \/ EngineCreateFails /\ failed' = failed \cup {nextID}
                         /\ UNCHANGED <<brokerVars, storeVars, serviceVars, created, limiterVars, httpVars, sseVars, listVars, ipVars, sdkVars>>
    \/ EngineWarn /\ NoSubscriber
    \/ EngineCreate /\ UNCHANGED <<storeKind, serviceVars, failed, created, limiterVars, httpVars, sseVars, listVars, ipVars, sdkVars>>
    \/ EngineBroadcast /\ UNCHANGED <<storeVars, serviceVars, failed, created, limiterVars, httpVars, sseVars, listVars, ipVars, sdkVars>>
    \/ EngineBroadcastReturn /\ UNCHANGED <<storeVars, serviceVars, failed, created, limiterVars, httpVars, sseVars, listVars, ipVars, sdkVars>>
    \/ EngineDrawTick /\ NoSubscriber
    \/ EngineDrawDone /\ NoSubscriber
    \/ EngineWaitTick /\ NoSubscriber
    \/ EngineWaitDone /\ NoSubscriber
    \/ CancelRoot /\ NoSubscriber

InitEngine ==
    /\ BrokerInit
    /\ epc = "new"
    /\ running = FALSE
    /\ rootCtx = "live"
    /\ picks = <<>>
    /\ nextID = 0
    /\ idx = 0
    /\ config \in EngineConfigs
    /\ storeKind = "sqlite"
    /\ table \in InitialTables(config)
    /\ ServiceInit
    /\ failed = {}
    /\ created = <<>>
    /\ LimiterInit
    /\ HttpInit
    /\ SseInit
    /\ ListInit
    /\ ClientIPInit
    /\ SdkInit

SpecEngine == InitEngine /\ [][NextEngine]_vars

\* C9: the stored ids are 1, 2, 3, ... in creation order.
C9_MonotoneIds == \A k \in 1..Len(table) : table[k].ID = k

\* C9 witness: a cycle failed and the next round was then stored with the id
\* after the latest one.
C9_Witness ==
    /\ Len(table) >= 2
    /\ table[Len(table)].ID \in failed

\* C10 as claimed: every stored round has pick_count picks, pairwise
\* distinct, each in [1, max_number] and each a uint8.
C10_PicksValid ==
    \A r \in 1..Len(table) :
        LET ps == table[r].Picks
        IN /\ Len(ps) = config.PickCount
           /\ \A a, b \in 1..Len(ps) : ps[a] = ps[b] => a = b
           /\ \A a \in 1..Len(ps) : ps[a] \in 1..config.MaxNumber /\ ps[a] = Uint8(ps[a])

(***************************************************************************)
(* SpecRest: the engine of SpecEngine, run with EngineConfig, and the       *)
(* reads of the REST handlers (GetGame, ListGames) going on beside it.     *)
(***************************************************************************)
RestOnly == UNCHANGED <<brokerVars, engineVars, failed, created, limiterVars, httpVars, sseVars, listVars, ipVars, sdkVars>>

NextRest ==
    \/ NextEngine
    \/ \E id \in 1..MaxRounds : ServiceGetGame(id) /\ RestOnly
    \/ \E cursor \in 0..MaxRounds, limit \in 1..MaxLimit :
            ServiceListGames(cursor, limit) /\ RestOnly
    \/ ServiceReturn /\ RestOnly

SpecRest == Init /\ [][NextRest]_vars

\* the round the engine has persisted and not yet left: from its create to
\* the end of its wait
RoundInProgress ==
    IF epc \in {"state0", "draw", "pick", "state", "complete", "wait"} THEN nextID ELSE 0

\* a call of GetGame / ListGames returns games
ReadReturnsGames == resp = NoResponse /\ resp' # NoResponse /\ resp'.err = ""

\* C6 as claimed: a REST read that contains the round the engine is playing
\* returns it with empty picks, and returns every other round with its stored
\* picks.
C6_ActiveRoundHidden ==
    [][ReadReturnsGames =>
          \A k \in 1..Len(resp'.games) :
              resp'.games[k].Picks =
                  IF resp'.games[k].ID = RoundInProgress THEN <<>>
                  ELSE Row(resp'.games[k].ID).Picks]_vars

(***************************************************************************)
(* SpecService: GameService over either Store, called by a client that     *)
(* creates games, sets the active id and reads; created keeps what was     *)
(* handed to CreateGame.                                                   *)
(***************************************************************************)
GameIDs == 1..MaxRounds

ServiceOnly == UNCHANGED <<brokerVars, engineVars, failed, limiterVars, httpVars, sseVars, listVars, ipVars, sdkVars>>

NextService ==
    \/ \E id \in GameIDs, js \in RngOutputs(EngineConfig.MaxNumber) :
          LET game == NewGame(id, generatePicks(EngineConfig, js))
          IN /\ ServiceCreateGame(game)
             /\ created' = (id :> game.Picks) @@ created
             /\ UNCHANGED serviceVars
             /\ ServiceOnly
    \/ \E id \in GameIDs : SetActiveGameID(id) /\ UNCHANGED <<storeVars, created>> /\ ServiceOnly
    \/ \E id \in GameIDs : ServiceGetGame(id) /\ UNCHANGED created /\ ServiceOnly
    \/ \E cursor \in 0..MaxRounds, limit \in 1..MaxLimit :
          ServiceListGames(cursor, limit) /\ UNCHANGED created /\ ServiceOnly
    \/ ServiceReturn /\ UNCHANGED created /\ ServiceOnly

InitService ==
    /\ BrokerInit
    /\ EngineInit
    /\ storeKind \in {"sqlite", "mock"}
    /\ table = <<>>
    /\ ServiceInit
    /\ failed = {}
    /\ created = <<>>
    /\ LimiterInit
    /\ HttpInit
    /\ SseInit
    /\ ListInit
    /\ ClientIPInit
    /\ SdkInit

SpecService == InitService /\ [][NextService]_vars

\* C7 as claimed: a call of GetGame or ListGames that the store answers
\* returns the entry whose id is the active id with empty picks and every other
\* entry with exactly the picks that were stored for it; a call the store
\* fails returns the store's error (not found, persistence error) and no game.
C7_ReturnsStoredPicks ==
    [][(resp = NoResponse /\ resp' # NoResponse) =>
          IF resp'.err = ""
          THEN /\ resp'.op = "GetGame" =>
                     Len(resp'.games) = 1 /\ resp'.games[1].ID = resp'.args[1]
               /\ \A k \in 1..Len(resp'.games) :
                     /\ resp'.games[k].ID \in StoredIDs
                     /\ resp'.games[k].Picks =
                           IF resp'.games[k].ID = activeGameID THEN <<>>
                           ELSE created[resp'.games[k].ID]
          ELSE /\ resp'.games = <<>>
               /\ resp'.err \in {NotFound, StoreError}
               /\ resp'.err = NotFound =>
                     resp'.op = "GetGame" /\ resp'.args[1] \notin StoredIDs]_vars

\* C8 as claimed: after a call of GetGame or ListGames, whatever it redacted,
\* the store holds for every round the picks the round was created with, and
\* the call returns a round that is not the active one with those picks.
C8_StoreNotMutated ==
    [][(resp = NoResponse /\ resp' # NoResponse) =>
          /\ \A k \in 1..Len(table') : table'[k].Picks = created[table'[k].ID]
          /\ resp'.err = "" =>
                \A k \in 1..Len(resp'.games) :
                    resp'.games[k].ID # activeGameID =>
                        resp'.games[k].Picks = created[resp'.games[k].ID]]_vars

(***************************************************************************)
(* SpecBrokerFair: SpecBroker with the scheduling of the goroutines.  A    *)
(* Publish call keeps running to its return.  The cleanup goroutine of a   *)
(* cancelled subscriber is at mu.Lock(); the RWMutex lets no new reader in *)
(* ahead of a waiting writer, so the cleanup gets the lock once the reads  *)
(* in progress are over, however many Publish calls follow.  Receives are  *)
(* left out: a receive takes no lock and touches neither the subscriber    *)
(* set nor the state of a channel.                                         *)
(***************************************************************************)
NextBrokerFair ==
    \/ \E c \in Chans : Subscribe(c) /\ BrokerOnly
    \/ \E c \in Chans : Cancel(c) /\ BrokerOnly
    \/ \E c \in Chans : Cleanup(c) /\ BrokerOnly
    \/ ClientPublish /\ BrokerOnly
    \/ \E c \in Chans : PublishSend(c) /\ BrokerOnly
    \/ ClientPublishReturn /\ BrokerOnly

FairBroker ==
    /\ \A c \in Chans : SF_vars(Cleanup(c) /\ BrokerOnly)
    /\ \A c \in Chans : WF_vars(PublishSend(c) /\ BrokerOnly)
    /\ WF_vars(ClientPublishReturn /\ BrokerOnly)

SpecBrokerFair == InitBroker /\ [][NextBrokerFair]_vars /\ FairBroker

\* the step that closes channel c
Closes(c) == chanState[c] # "closed" /\ chanState'[c] = "closed"

\* C11, the steps: a channel is closed only while open and registered, by a
\* step that takes it, and it alone, out of the subscriber set, so that
\* SubscriberCount goes down by exactly one; a closed channel stays closed
\* (it is closed once); a step that closes no channel removes no subscriber.
C11_Step ==
    /\ \A c \in Chans :
          /\ Closes(c) =>
                /\ chanState[c] = "open"
                /\ ctx[c] = "cancelled"
                /\ c \in subscribers
                /\ subscribers' = subscribers \ {c}
                /\ Cardinality(subscribers') = SubscriberCount - 1
          /\ chanState[c] = "closed" => chanState'[c] = "closed"
    /\ (\A c \in Chans : ~Closes(c)) => subscribers \subseteq subscribers'

\* C11: after the context given to Subscribe is cancelled the subscriber is
\* eventually out of the subscriber set with its channel closed, while Publish
\* calls go on; the close happens once and takes SubscriberCount down by one.
C11_CancelCloses ==
    /\ \A c \in Chans :
          (ctx[c] = "cancelled") ~> (c \notin subscribers /\ chanState[c] = "closed")
    /\ [][C11_Step]_vars

\* C11 witness: a cancelled subscriber is gone and its channel closed while
\* another subscriber is still registered and a Publish call is in
\* progress.
C11_Witness ==
    \E c, d \in Chans :
        /\ ctx[c] = "cancelled"
        /\ chanState[c] = "closed"
        /\ c \notin subscribers
        /\ d \in subscribers
        /\ SubscriberCount = 1
        /\ pub.active

\* C12: every registered channel is open and every closed channel is out of
\* the subscriber set; the channels a Publish call in progress has still to
\* send to are open, so Publish never sends on a closed channel.
C12_NoSendOnClosed ==
    /\ \A c \in subscribers : chanState[c] = "open"
    /\ \A c \in Chans : chanState[c] = "closed" => c \notin subscribers
    /\ pub.active => \A c \in pub.pending : chanState[c] = "open"

\* C12 witness: a Publish call in progress has still to send to a channel
\* whose context is cancelled (its cleanup waits for the lock), after the
\* cleanup of another channel has closed that one.
C12_Witness ==
    \E c, d \in Chans :
        /\ pub.active
        /\ c \in pub.pending
        /\ ctx[c] = "cancelled"
        /\ chanState[d] = "closed"

\* C13 as claimed: no event whose Publish call started after the subscriber's
\* context was cancelled is put into the subscriber's channel.
C13_NoEnqueueAfterCancel ==
    [][\A c \in Chans : Len(buf'[c]) > Len(buf[c]) => c \notin pub.late]_vars

RECURSIVE Increasing(_)
Increasing(sq) ==
    IF Len(sq) < 2 THEN TRUE
    ELSE sq[1] < sq[2] /\ Increasing(Tail(sq))

\* C14: the client publishes 1, 2, 3, ... in this order; what a subscriber
\* has received, followed by what its channel still holds, is a strictly
\* increasing sequence of published events: a subsequence of the published
\* sequence in publish order, nothing twice, whatever was dropped.
C14_PublishOrder ==
    \A c \in Chans :
        /\ Increasing(recv[c] \o buf[c])
        /\ \A k \in 1..Len(recv[c]) : recv[c][k] \in 1..Len(log)

\* C14 witness: a subscriber has received two events and a later one was
\* dropped for it.
C14_Witness ==
    \E c \in Chans : Len(recv[c]) >= 2 /\ drops[c] # {}

\* C15 as claimed: once the context given to Run is cancelled the engine
\* publishes no further event and creates no further round, and when Run has
\* returned is_running is false.
C15_CancelStopsEngine ==
    [][/\ rootCtx = "cancelled" => (log' = log /\ table' = table)
       /\ epc' = "stopped" => ~running']_vars

\* the store call of a cycle returns an error to runGame: the engine leaves
\* GetLatestGame or CreateGame otherwise than onwards
StoreCallFails ==
    \/ epc = "getLatest" /\ epc' \notin {"getLatest", "create"}
    \/ epc = "create" /\ epc' \notin {"create", "state0"}

\* the cycle in hand has published nothing: the log is empty or ends with the
\* complete of an earlier round
NothingBroadcast == log = <<>> \/ log[Len(log)].type = "game:complete"

\* C16: when GetLatestGame or CreateGame fails while the context is not
\* cancelled, Run does not return and is_running stays true, the failed cycle
\* has published nothing and publishes nothing, the store is as it was, and
\* the engine's next step takes it back to the loop for a new cycle.
C16_FailedCycleContinues ==
    /\ [][(StoreCallFails /\ rootCtx = "live") =>
             /\ epc' # "stopped"
             /\ running'
             /\ NothingBroadcast
             /\ log' = log
             /\ table' = table]_vars
    /\ [][epc = "warn" =>
             /\ epc' \in {"warn", "loop"}
             /\ running'
             /\ log' = log
             /\ table' = table]_vars
    /\ [](epc = "warn" => running)

\* C16 witness: after a cycle failed at CreateGame the engine, still running,
\* is in a new cycle at its store call, with the store as the failed cycle
\* left it.
C16_Witness ==
    /\ failed # {}
    /\ epc = "create"
    /\ running
    /\ rootCtx = "live"
    /\ nextID \in failed
    /\ nextID \notin StoredIDs

\* the engine waits on a timer (time.After)
AtTimer == epc \in {"draw", "wait"}

\* C17 as claimed: after a failed cycle was logged the engine sleeps before it
\* goes on: its next step takes it to a wait on a timer, not straight back to
\* the loop and the next cycle's store call.
C17_SleepAfterFailure ==
    [][(epc = "warn" /\ epc' # "warn") => AtTimer']_vars
(***************************************************************************)
(* The rate limiter on its own: requests, the clock and the eviction loop. *)
(***************************************************************************)
LimiterOnly == UNCHANGED <<brokerVars, engineVars, storeVars, serviceVars, failed, created, httpVars, sseVars, listVars, ipVars, sdkVars>>

NextLimiter ==
    \/ \E s \in Slots : LimiterStep(s) /\ LimiterOnly
    \/ ClockAdvance /\ LimiterOnly
    \/ LimiterCleanup /\ LimiterOnly

SpecLimiter == InitBroker /\ [][NextLimiter]_vars


(***************************************************************************)
(* Claims on the rate limiter                                              *)
(***************************************************************************)

\* What the limiter holds for address b: its place in the map, its requests
\* in flight, the entries these refer to, and its answers so far.
LimiterView(b) ==
    LET mine == {s \in Slots : req[s].pc # "idle" /\ req[s].ip = b}
        refs == {a \in DOMAIN heap : limiters[b] = a \/ \E s \in mine : req[s].ref = a} IN
    <<limiters[b], [s \in mine |-> req[s]], [a \in refs |-> heap[a]], passed[b], rejected[b]>>

\* The step is a step of a request whose key is a.
StepOfKey(a) ==
    \E s \in Slots :
        /\ req'[s] # req[s]
        /\ a = IF req[s].pc = "idle" THEN req'[s].ip ELSE req[s].ip

\* C18: requests keyed to one address never change the outcome of requests
\* keyed to another.  Every entry, in the map or held by a request, is the
\* bucket of one address only; a step of a request keyed to a leaves what
\* the limiter holds for every other address b as it was, so b's requests are
\* allowed or rejected as if a had sent nothing; and an address is never
\* rejected before one of its own requests has passed.
C18_Isolation ==
    /\ [](\A b \in IPs :
            /\ limiters[b] # 0 => heap[limiters[b]].owner = b
            /\ \A s \in Slots : req[s].ref # 0 => heap[req[s].ref].owner = req[s].ip
            /\ rejected[b] > 0 => passed[b] > 0)
    /\ [][\A a, b \in IPs : (a # b /\ StepOfKey(a)) => LimiterView(b)' = LimiterView(b)]_vars

\* One address has been rejected and the other has passed within the same
\* second, each with its own entry.
C18_Witness ==
    /\ now = 0
    /\ rejected[1] > 0
    /\ passed[2] > 0
    /\ limiters[1] # 0
    /\ limiters[2] # 0
    /\ limiters[1] # limiters[2]

\* The step in which the request of place s gets its answer.
Answered(s) == req[s].pc = "allow" /\ req'[s].pc = "idle"

\* C19: within the second of an address's first request, when no refill has
\* elapsed, its first Burst requests reach the next handler and every further
\* one is answered 429; and a request reaches the next handler only in a step
\* in which a token was there and was taken from its bucket, while a request
\* answered 429 found no token, leaves the bucket as it was and does not
\* reach the handler.
C19_BurstThenReject ==
    /\ [](\A ip \in IPs :
            firstSeen[ip] = now =>
                /\ passed[ip] <= LimiterConfig.Burst
                /\ rejected[ip] > 0 => passed[ip] = LimiterConfig.Burst)
    /\ [][\A s \in Slots :
            Answered(s) =>
                LET ip == req[s].ip
                    a == req[s].ref
                    avail == Advance(heap[a], now) IN
                \/ /\ avail >= 1
                   /\ passed'[ip] = passed[ip] + 1
                   /\ rejected' = rejected
                   /\ a \in DOMAIN heap' => heap'[a].tokens = avail - 1
                \/ /\ avail < 1
                   /\ rejected'[ip] = rejected[ip] + 1
                   /\ passed' = passed
                   /\ a \in DOMAIN heap' => heap'[a] = heap[a]]_vars

\* Rate 1, burst 2: of three requests of one address within a second, two
\* have passed and the third was answered 429.
C19_Witness ==
    /\ firstSeen[1] = now
    /\ passed[1] = LimiterConfig.Burst
    /\ rejected[1] = 1
    /\ heap[limiters[1]].tokens = 0

\* The age of the entry the map holds for ip.
Age(ip) == now - heap[limiters[ip]].lastSeen

\* C20: a cleanup tick removes from the map every entry whose last_seen is
\* older than max_age and no other entry; so no entry stays in the map past
\* the first tick after it expired, which comes within one cleanup interval
\* of the expiry.
C20_Eviction ==
    /\ [][(tickDue /\ ~tickDue') =>
            \A ip \in IPs :
                limiters'[ip] = IF limiters[ip] # 0 /\ Age(ip) > LimiterConfig.MaxAge
                                THEN 0 ELSE limiters[ip]]_vars
    /\ [](\A ip \in IPs :
            limiters[ip] # 0 =>
                /\ Age(ip) <= LimiterConfig.MaxAge + LimiterConfig.CleanupInterval
                /\ ~tickDue =>
                       heap[limiters[ip]].lastSeen + LimiterConfig.MaxAge
                           >= now - (now % LimiterConfig.CleanupInterval))

\* A tick has just run: it removed the entry of address 1, which had
\* expired, and kept the entry of address 2, seen before the tick and within
\* max_age.
C20_Witness ==
    /\ now > 0
    /\ now % LimiterConfig.CleanupInterval = 0
    /\ ~tickDue
    /\ passed[1] > 0
    /\ limiters[1] = 0
    /\ \A s \in Slots : req[s].pc = "idle"
    /\ limiters[2] # 0
    /\ Age(2) > 0

(***************************************************************************)
(* The middleware chain on its own: one request and its handler.           *)
(***************************************************************************)
HttpOnly == UNCHANGED <<brokerVars, engineVars, storeVars, serviceVars, failed, created, limiterVars, sseVars, listVars, ipVars, sdkVars>>

NextHttp ==
    \/ \E r \in HttpRequests : HttpBegin(r) /\ HttpOnly
    \/ HandlerWriteHeader /\ HttpOnly
    \/ HandlerWriteBegin /\ HttpOnly
    \/ HandlerWriteEnd /\ HttpOnly
    \/ HandlerReturn /\ HttpOnly
    \/ HandlerPanic /\ HttpOnly
    \/ DeadlineFires /\ HttpOnly
    \/ TimeoutDone /\ HttpOnly
    \/ TimeoutExpired /\ HttpOnly

SpecHttp == InitBroker /\ [][NextHttp]_vars

(***************************************************************************)
(* Claims on the middleware chain                                          *)
(***************************************************************************)

\* The step in which TimeoutWithSkip returns on its deadline while the handler
\* is still running.
TimedOut == hpos = "select" /\ hpos' = "finished" /\ deadline = "fired" /\ hpc # "done"

\* C21: for a path outside the skip set, when the deadline fires before the
\* handler has written anything the client gets 504 "request timeout" and the
\* context of the handler is cancelled; when the handler has written its
\* header by then, the timeout middleware writes nothing and the response of
\* the handler stands.
C21_TimeoutAnswer ==
    [][TimedOut =>
        /\ hctx' = "cancelled"
        /\ (rstatus = 0 /\ rbody = <<>>) => (rstatus' = 504 /\ rbody' = <<"timeout">>)
        /\ rstatus # 0 => (rstatus' = rstatus /\ rbody' = rbody)]_vars

\* C22: a request to the SSE endpoint is never wrapped by the gzip encoder
\* and never given a deadline, whatever its headers: its response carries no
\* gzip encoding, the timeout middleware never waits on it, and no 504 of the
\* timeout middleware reaches it however much the handler writes.
C22_SseSkipped ==
    hreq.path = sseEndpoint =>
        /\ ~encoded
        /\ deadline = "none"
        /\ hpos # "select"
        /\ rstatus # 504
        /\ \A i \in 1..Len(rbody) : rbody[i] # "timeout"

\* A request to the SSE endpoint that accepts gzip, its handler still running
\* after all its chunks.
C22_Witness ==
    /\ hreq.path = sseEndpoint
    /\ hreq.acceptGzip
    /\ hpos = "inline"
    /\ hpc = "run"
    /\ rstatus = 200
    /\ Len(rbody) = MaxBody

\* The step in which the handler panics.
Panicked == hpc = "run" /\ hpc' = "done" /\ (crashed' \/ rbody' # rbody)

\* C23 as stated: a panic of a route handler, on any path and also on the
\* goroutine of the timeout middleware, is caught by Recoverer and answered
\* with 500, and never ends the process.
C23_Original == [][Panicked => (~crashed' /\ rstatus' = 500)]_vars

\* C23: a panic of a route handler, on any path and also on the goroutine of
\* the timeout middleware, is caught by Recoverer and never ends the process;
\* Recoverer writes its 500 response, which sets the status to 500 when no
\* status had been written before the panic and leaves a status already
\* written as it is.
C23_PanicRecovered ==
    /\ []~crashed
    /\ [][Panicked =>
            /\ rbody' = Append(rbody, "recoverer")
            /\ rstatus = 0 => rstatus' = 500
            /\ rstatus # 0 => rstatus' = rstatus]_vars

\* A handler run on the goroutine of the timeout middleware has panicked
\* before writing anything, and the response is 500.
C23_Witness ==
    /\ TimeoutWraps(hreq)
    /\ hpos = "select"
    /\ hpc = "done"
    /\ rstatus = 500
    /\ rbody = <<"recoverer">>
    /\ ~crashed

\* C27: the first game event a newly connected subscriber receives is a
\* game:state snapshot, never a game:pick or a game:complete, whatever the
\* phase of the round when it connected.
C27_FirstEventIsState ==
    \A c \in Chans : recv[c] # <<>> => recv[c][1].type = "game:state"

(***************************************************************************)
(* An SSE connection on the broker, with a publisher beside it.             *)
(***************************************************************************)
SseOnly == UNCHANGED <<engineVars, storeVars, serviceVars, failed, created, limiterVars, httpVars, listVars, ipVars, sdkVars>>

NextSse ==
    \/ \E c \in EngineChans : SseConnect(c) /\ SseOnly
    \/ \E c \in EngineChans : SseTick(c) /\ SseOnly
    \/ \E c \in EngineChans : SseHeartbeat(c) /\ SseOnly
    \/ \E c \in EngineChans : SseEvent(c) /\ SseOnly
    \/ \E c \in EngineChans : SseChanClosed(c) /\ SseOnly
    \/ \E c \in EngineChans : SseCtxDone(c) /\ SseOnly
    \/ \E c \in EngineChans : ClientGone(c) /\ SseOnly
    \/ \E c \in Chans : Cancel(c) /\ BrokerOnly
    \/ \E c \in Chans : Cleanup(c) /\ BrokerOnly
    \/ ClientPublish /\ BrokerOnly
    \/ \E c \in Chans : PublishSend(c) /\ BrokerOnly
    \/ ClientPublishReturn /\ BrokerOnly

FairSse ==
    /\ \A c \in Chans : SF_vars(Cleanup(c) /\ BrokerOnly)
    /\ \A c \in Chans : WF_vars(PublishSend(c) /\ BrokerOnly)
    /\ WF_vars(ClientPublishReturn /\ BrokerOnly)
    /\ \A c \in Chans : WF_vars(SseCtxDone(c) /\ SseOnly)
    /\ \A c \in Chans : WF_vars(SseHeartbeat(c) /\ SseOnly)

SpecSse == InitBroker /\ [][NextSse]_vars /\ FairSse

(***************************************************************************)
(* Claims on the SSE handler                                               *)
(***************************************************************************)

\* The step in which the loop of connection c takes a tick or an event and
\* writes its frame.
SseWrites(c) ==
    /\ sse[c] = "loop"
    /\ \/ hbTick[c] /\ ~hbTick'[c] /\ ctx'[c] = ctx[c]
       \/ Len(buf'[c]) < Len(buf[c])
       \/ hbTick[c] /\ conn[c] = "broken" /\ sse'[c] = "returned" /\ ctx[c] = "live"

TickTaken(c) == sse[c] = "loop" /\ sse'[c] = "loop" /\ hbTick[c] /\ ~hbTick'[c]

\* C25: on an open connection every heartbeat tick the loop takes writes one
\* game:heartbeat frame, and nothing else, to that connection, whether or not
\* game events are waiting; and a tick that is waiting is taken, so that an
\* idle connection gets its heartbeat.
C25_HeartbeatPerTick ==
    /\ [][\A c \in Chans :
            TickTaken(c) =>
                /\ conn[c] = "open"
                /\ frames'[c] = Append(frames[c], Heartbeat)
                /\ buf'[c] = buf[c]]_vars
    /\ \A c \in Chans :
            (sse[c] = "loop" /\ hbTick[c]) ~> (~hbTick[c])

\* A heartbeat frame was the last frame written to a live connection while
\* game events were waiting in its channel.
C25_Witness ==
    \E c \in Chans :
        /\ sse[c] = "loop"
        /\ ctx[c] = "live"
        /\ buf[c] # <<>>
        /\ frames[c] # <<>>
        /\ frames[c][Len(frames[c])] = Heartbeat

(***************************************************************************)
(* SpecList: the list handler over a store that holds any rounds with ids  *)
(* up to MaxStored, a client paging through them, the engine adding rounds.*)
(***************************************************************************)
ListOnly == UNCHANGED <<brokerVars, engineVars, failed, created, limiterVars, httpVars, sseVars, ipVars, sdkVars>>

InitList ==
    /\ BrokerInit
    /\ EngineInit
    /\ storeKind \in {"sqlite", "handlerMock"}
    /\ \E ids \in SUBSET (1..MaxStored) :
          table = [k \in 1..Cardinality(ids) |->
                     NewGame(CHOOSE id \in ids : Cardinality({j \in ids : j < id}) = k - 1,
                             <<1, 2>>)]
    /\ ServiceInit
    /\ failed = {}
    /\ created = <<>>
    /\ LimiterInit
    /\ HttpInit
    /\ SseInit
    /\ ListInit
    /\ ClientIPInit
    /\ SdkInit

NextList ==
    \/ \E from \in -1..MaxStored, limit \in 0..MaxLimit : WalkStart(from, limit) /\ ListOnly
    \/ WalkStep /\ ListOnly
    \/ WalkEnd /\ ListOnly
    \/ ListCreateNext /\ ListOnly

SpecList == InitList /\ [][NextList]_vars

\* an answer of handleListGames is made, with status 200
ListAnswered == lresp' # lresp /\ lresp'.status = 200

StrictlyAscending(ids) == \A a, b \in 1..Len(ids) : a < b => ids[a] < ids[b]

ListExpected(startID, limit, r) ==
    LET ids == {id \in StoredIDs : id >= startID}
    IN  /\ \A k \in 1..Len(r) : r[k] = Row(r[k].ID) /\ r[k].ID \in ids
        /\ StrictlyAscending(IDsOf(r))
        /\ Len(r) = (IF Cardinality(ids) < limit THEN Cardinality(ids) ELSE limit)
        /\ \A id \in ids : (\A k \in 1..Len(r) : r[k].ID # id) =>
                             \A k \in 1..Len(r) : r[k].ID < id

\* C29: for every start id and limit, the sqlite Store.ListGames has one
\* possible result: the stored rounds with id >= start (the start id itself
\* included), in ascending id order, cut to the first limit of them.
C29_StoreList ==
    storeKind = "sqlite" =>
        \A startID \in 0..(MaxStored + 1), limit \in 0..(MaxLimit + 1) :
            /\ Cardinality(StoreListGames(startID, limit)) = 1
            /\ \A r \in StoreListGames(startID, limit) : ListExpected(startID, limit, r)

\* a list from a stored id on, cut by the limit: the round at the cursor is
\* the first one returned
C29_Witness ==
    /\ storeKind = "sqlite"
    /\ lresp.status = 200 /\ lresp.cursor = 3 /\ lresp.limit = 1
    /\ StoredIDs = {1, 3, 4, 5}
    /\ StoreListGames(lresp.cursor, FetchLimit(lresp.limit)) = {<<Row(3), Row(4)>>}
    /\ IDsOf(lresp.games) = <<3>>

ShutdownSignal ==
    /\ srv \in {"serving", "draining"}
    /\ CancelRoot
    /\ ctx' = [c \in Chans |-> IF ctx[c] = "live" THEN "cancelled" ELSE ctx[c]]
    /\ UNCHANGED <<subscribers, chanState, buf, pub, log, recv, drops>>

\* Server.Run, select: "case err := <-errCh": ListenAndServe failed, Run
\* returns the error.
ServerListenFails ==
    /\ srv = "serving"
    /\ \A c \in Chans : sse[c] = "none"
    /\ srv' = "failed"
    /\ UNCHANGED <<sse, frames, hbTick, conn>>

\* Server.Run, select: "case <-ctx.Done()", then server.Shutdown is called: no
\* new connection is accepted.
ServerRunDone ==
    /\ srv = "serving"
    /\ rootCtx = "cancelled"
    /\ srv' = "draining"
    /\ UNCHANGED <<sse, frames, hbTick, conn>>

\* server.Shutdown returns nil: no connection has a handler running; Run
\* returns nil.
ServerShutdownDrained ==
    /\ srv = "draining"
    /\ \A c \in Chans : sse[c] # "loop"
    /\ srv' = "returned"
    /\ UNCHANGED <<sse, frames, hbTick, conn>>

\* server.Shutdown returns the error of shutdownCtx (ShutdownTimeout is over)
\* while a handler is still running; Run returns that error.
ServerShutdownTimeout ==
    /\ srv = "draining"
    /\ \E c \in Chans : sse[c] = "loop"
    /\ srv' = "returned"
    /\ UNCHANGED <<sse, frames, hbTick, conn>>

\* RunServe returns after server.Run: the deferred cancel() and app.Close(),
\* and the process ends.  RunServe waits for no goroutine: the engine, the
\* handlers and the cleanup goroutines of the broker end where they are.
RunServeReturn ==
    /\ srv \in {"returned", "failed"}
    /\ srv' = "exited"
    /\ rootCtx' = "cancelled"
    /\ UNCHANGED <<config, epc, running, picks, nextID, idx>>
    /\ UNCHANGED <<sse, frames, hbTick, conn>>

\* the process is running
Alive == srv # "exited"

ServerOnly == UNCHANGED <<brokerVars, engineVars, storeVars, serviceVars, failed, created, limiterVars, httpVars, listVars, ipVars, sdkVars>>
ExitOnly == UNCHANGED <<brokerVars, storeVars, serviceVars, failed, created, limiterVars, httpVars, listVars, ipVars, sdkVars>>
SignalOnly == UNCHANGED <<storeVars, serviceVars, failed, created, limiterVars, httpVars, sseVars, listVars, ipVars, sdkVars>>
EngineBroadcastOnly == UNCHANGED <<storeVars, serviceVars, failed, created, limiterVars, httpVars, sseVars, listVars, ipVars, sdkVars>>
EngineCreateOnly == UNCHANGED <<storeKind, serviceVars, failed, created, limiterVars, httpVars, sseVars, listVars, ipVars, sdkVars>>

EngineStep ==
    \/ EngineRun /\ EngineOnly
    \/ EngineLoopDone /\ EngineOnly
    \/ EngineLoopRunGame /\ EngineOnly
    \/ EngineGetLatestFails /\ EngineOnly
    \/ EngineGetLatest /\ EngineOnly
    \/ EngineCreateFails /\ EngineOnly
    \/ EngineWarn /\ EngineOnly
    \/ EngineCreate /\ EngineCreateOnly
    \/ EngineBroadcast /\ EngineBroadcastOnly
    \/ EngineBroadcastReturn /\ EngineBroadcastOnly
    \/ EngineDrawTick /\ EngineOnly
    \/ EngineDrawDone /\ EngineOnly
    \/ EngineWaitTick /\ EngineOnly
    \/ EngineWaitDone /\ EngineOnly

NextShutdown ==
    \/ Alive /\ EngineRun /\ EngineOnly
    \/ Alive /\ EngineLoopDone /\ EngineOnly
    \/ Alive /\ EngineLoopRunGame /\ EngineOnly
    \/ Alive /\ EngineGetLatestFails /\ EngineOnly
    \/ Alive /\ EngineGetLatest /\ EngineOnly
    \/ Alive /\ EngineCreateFails /\ EngineOnly
    \/ Alive /\ EngineWarn /\ EngineOnly
    \/ Alive /\ EngineCreate /\ EngineCreateOnly
    \/ Alive /\ EngineBroadcast /\ EngineBroadcastOnly
    \/ Alive /\ EngineBroadcastReturn /\ EngineBroadcastOnly
    \/ Alive /\ EngineDrawTick /\ EngineOnly
    \/ Alive /\ EngineDrawDone /\ EngineOnly
    \/ Alive /\ EngineWaitTick /\ EngineOnly
    \/ Alive /\ EngineWaitDone /\ EngineOnly
    \/ \E c \in Chans : Alive /\ PublishSend(c) /\ BrokerOnly
    \/ \E c \in Chans : Alive /\ Cleanup(c) /\ BrokerOnly
    \/ \E c \in EngineChans : Alive /\ SseConnect(c) /\ SseOnly
    \/ \E c \in EngineChans : Alive /\ SseEvent(c) /\ SseOnly
    \/ \E c \in EngineChans : Alive /\ SseChanClosed(c) /\ SseOnly
    \/ \E c \in EngineChans : Alive /\ SseCtxDone(c) /\ SseOnly
    \/ ShutdownSignal /\ SignalOnly
    \/ ServerListenFails /\ ServerOnly
    \/ ServerRunDone /\ ServerOnly
    \/ ServerShutdownDrained /\ ServerOnly
    \/ ServerShutdownTimeout /\ ServerOnly
    \/ RunServeReturn /\ ExitOnly

\* Every goroutine that can take a step takes one while the process runs,
\* and Run and RunServe go on to their return.
FairShutdown ==
    /\ WF_vars(Alive /\ EngineStep)
    /\ \A c \in Chans : WF_vars(Alive /\ PublishSend(c) /\ BrokerOnly)
    /\ \A c \in Chans : SF_vars(Alive /\ Cleanup(c) /\ BrokerOnly)
    /\ \A c \in EngineChans : WF_vars(Alive /\ SseCtxDone(c) /\ SseOnly)
    /\ WF_vars(ServerRunDone /\ ServerOnly)
    /\ WF_vars((ServerShutdownDrained \/ ServerShutdownTimeout) /\ ServerOnly)
    /\ WF_vars(RunServeReturn /\ ExitOnly)

\* RunServe starts on a store that holds the rounds of earlier runs.
InitShutdown ==
    /\ BrokerInit
    /\ EngineInit
    /\ storeKind = "sqlite"
    /\ table = [k \in 1..(MaxRounds - 1) |->
                   NewGame(k, generatePicks(EngineConfig, [i \in 2..EngineConfig.MaxNumber |-> i]))]
    /\ ServiceInit
    /\ failed = {}
    /\ created = <<>>
    /\ LimiterInit
    /\ HttpInit
    /\ SseInit
    /\ ListInit
    /\ ClientIPInit
    /\ SdkInit

SpecShutdown == InitShutdown /\ [][NextShutdown]_vars /\ FairShutdown

\* C26 as claimed: once the root context is cancelled under a running
\* server, eventually every SSE handler has left its loop, every subscriber
\* channel of the broker is closed and the subscriber count is 0, the engine
\* loop has stopped, and Server.Run has returned.
C26_Shutdown ==
    (rootCtx = "cancelled" /\ srv \in {"serving", "draining"}) ~>
        (/\ \A c \in Chans : sse[c] # "loop"
         /\ \A c \in Chans : chanState[c] # "open"
         /\ SubscriberCount = 0
         /\ epc = "stopped"
         /\ srv \in {"returned", "failed", "exited"})

(***************************************************************************)
(* Claims C35 .. C39                                                       *)
(***************************************************************************)

\* C35 as claimed: from the moment round N is persisted and while it is
\* revealed (state, picks, complete), the active id of the game service is N.
C35_ActiveIdSet ==
    epc \in {"state0", "draw", "pick", "state", "complete"} => activeGameID = nextID

\* C36 as claimed: the chain a request goes through is Recoverer, CORS, RateLimit, Gzip, Timeout,
\* RequestLogging from the outside in, so that Recoverer encloses every other
\* middleware.
C36_ChainOrder ==
    hpos # "idle" =>
    /\ Encloses("Recoverer", "CORS")
    /\ Encloses("CORS", "RateLimit")
    /\ Encloses("RateLimit", "Gzip")
    /\ Encloses("Gzip", "Timeout")
    /\ Encloses("Timeout", "Logging")
    /\ \A i \in 1..Len(Chain) : Chain[i] # "Recoverer" => Encloses("Recoverer", Chain[i])

\* the frame written last
LastFrame(fs) == fs[Len(fs)]

\* C37: the frames of a connection are written by its select loop alone, one
\* per turn of the loop: every step that writes to a connection is a step of
\* the handler in its loop that takes either the waiting heartbeat tick or the
\* next event of its channel, never both, and appends that one frame whole
\* after the frames written before.
C37_SingleWriter ==
    [][\A c \in Chans :
          frames'[c] # frames[c] =>
            /\ sse[c] = "loop"
            /\ Len(frames'[c]) = Len(frames[c]) + 1
            /\ SubSeq(frames'[c], 1, Len(frames[c])) = frames[c]
            /\ \/ /\ hbTick[c] /\ ~hbTick'[c]
                  /\ buf'[c] = buf[c]
                  /\ LastFrame(frames'[c]) = Heartbeat
               \/ /\ buf[c] # <<>> /\ buf'[c] = Tail(buf[c])
                  /\ hbTick'[c] = hbTick[c]
                  /\ LastFrame(frames'[c]) = EventFrame(Head(buf[c]))
            /\ \A d \in Chans \ {c} : frames'[d] = frames[d]]_vars

\* A connection has been written an event frame and then a heartbeat frame
\* while a further event was waiting in its channel.
C37_Witness ==
    \E c \in Chans :
        /\ Len(frames[c]) >= 2
        /\ frames[c][1].type = "game"
        /\ LastFrame(frames[c]) = Heartbeat
        /\ buf[c] # <<>>
        /\ sse[c] = "loop"

\* getLimiter returns to RateLimit
GetLimiterReturns(s) == req[s].pc \in {"update", "create"} /\ req'[s].pc = "allow"

\* C38 as claimed: the limiter getLimiter returns is the one the map holds for
\* the address when it returns, and a request takes its token from the bucket
\* the map holds for its address.
C38_LiveBucket ==
    /\ [][\A s \in Slots :
            GetLimiterReturns(s) => limiters'[LimiterKey(req'[s].ip)] = req'[s].ref]_vars
    /\ [][\A s \in Slots :
            (req[s].pc = "allow" /\ req'[s].pc = "idle") =>
                limiters[LimiterKey(req[s].ip)] = req[s].ref]_vars

\* C39 as claimed: of a request under the timeout middleware either the
\* handler's response or the 504 reaches the ResponseWriter, never both, and
\* nothing of the handler reaches it after the 504.
C39_OneResponse ==
    \A i, j \in 1..Len(rbody) : ~(rbody[i] = "timeout" /\ rbody[j] \in {"handler", "recoverer"})

(***************************************************************************)
(* SpecClientIP: GetClientIP applied to one request, whose headers and     *)
(* remote address are drawn from IPRequests.                               *)
(***************************************************************************)
InitClientIP ==
    /\ BrokerInit
    /\ EngineInit
    /\ storeKind = "sqlite"
    /\ table = <<>>
    /\ ServiceInit
    /\ failed = {}
    /\ created = <<>>
    /\ LimiterInit
    /\ HttpInit
    /\ SseInit
    /\ ListInit
    /\ ipReq \in IPRequests
    /\ ipKey = NoKey
    /\ SdkInit

ClientIPOnly == UNCHANGED <<brokerVars, engineVars, storeVars, serviceVars, failed, created, limiterVars, httpVars, sseVars, listVars, sdkVars>>

NextClientIP == ClientIPCall /\ ClientIPOnly

SpecClientIP == InitClientIP /\ [][NextClientIP]_vars

\* e is the first comma-separated entry of x
IsFirstEntry(x, e) ==
    /\ Len(e) <= Len(x)
    /\ e = SubSeq(x, 1, Len(e))
    /\ \A i \in 1..Len(e) : e[i] # ","
    /\ Len(e) < Len(x) => x[Len(e) + 1] = ","

\* t is e without the spaces at its two ends
IsTrimmed(e, t) ==
    /\ t # <<>> => t[1] # " " /\ t[Len(t)] # " "
    /\ \E k \in 0..(Len(e) - Len(t)) :
          /\ t = SubSeq(e, k + 1, k + Len(t))
          /\ \A i \in (1..k) \cup ((k + Len(t) + 1)..Len(e)) : e[i] = " "

IsBlank(e) == \A i \in 1..Len(e) : e[i] = " "

\* the host of a remote address, or the address itself when it has no port
RemoteHost(addr) ==
    CASE addr = <<"a", ":", "8">> -> <<"a">>
      [] addr = <<"[", "a", ":", "b", "]", ":", "8">> -> <<"a", ":", "b">>
      [] OTHER -> addr

KeyFromRest ==
    IF ipReq.xri # <<>> THEN IsTrimmed(ipReq.xri, ipKey) ELSE ipKey = RemoteHost(ipReq.remote)

\* C34 as stated: the key is the trimmed first X-Forwarded-For entry whenever
\* the header is present; otherwise the trimmed X-Real-IP; otherwise the host
\* of the remote address, or the whole address when it carries no port.
C34_Original ==
    ipKey # NoKey =>
        IF ipReq.xff # <<>>
        THEN \E e \in Texts(HeaderChars, MaxHeaderLen) : IsFirstEntry(ipReq.xff, e) /\ IsTrimmed(e, ipKey)
        ELSE KeyFromRest

\* C34: the rate-limit key is the trimmed first X-Forwarded-For entry when
\* the header is present and that entry is not blank; otherwise the trimmed
\* X-Real-IP when that header is present; otherwise the host of the remote
\* address, or the whole address when it carries no port.
C34_ClientIP ==
    ipKey # NoKey =>
        \E e \in Texts(HeaderChars, MaxHeaderLen) :
            /\ IsFirstEntry(ipReq.xff, e)
            /\ IF ipReq.xff # <<>> /\ ~IsBlank(e) THEN IsTrimmed(e, ipKey) ELSE KeyFromRest

\* X-Forwarded-For is present with a blank first entry, and the key was
\* taken from X-Real-IP
C34_Witness ==
    /\ ipKey = <<"a">>
    /\ ipReq.xff = <<" ", ",", "b">>
    /\ ipReq.xri = <<" ", "a">>

(***************************************************************************)
(* SpecSdk: one SSEClient with max_retries drawn from 0..MaxRetriesCfg,    *)
(* against a server that refuses, or answers and ends the stream after any *)
(* number of tokens of a heartbeat; the caller may cancel at any time.     *)
(***************************************************************************)
SdkOnly == UNCHANGED <<brokerVars, engineVars, storeVars, serviceVars, failed, created, limiterVars, httpVars, sseVars, listVars, ipVars>>

HeartbeatEvent == [type |-> "game:heartbeat", payload |-> ZeroPayload]

ReadErrors == {"", "unexpected EOF"}

InitSdk ==
    /\ BrokerInit
    /\ EngineInit
    /\ storeKind = "sqlite"
    /\ table = <<>>
    /\ ServiceInit
    /\ failed = {}
    /\ created = <<>>
    /\ LimiterInit
    /\ HttpInit
    /\ SseInit
    /\ ListInit
    /\ ClientIPInit
    /\ maxRetries \in 0..MaxRetriesCfg
    /\ cctx = "live"
    /\ cpc = "idle"
    /\ retries = 0
    /\ cerr = ""
    /\ body = <<>>
    /\ bodyErr = ""
    /\ eventType = <<>>
    /\ data = <<>>
    /\ attempts = 0
    /\ sent = NoSent
    /\ calls = <<>>

SdkStep ==
    \/ SdkConnectCall
    \/ SdkDo(FALSE, <<>>, 0, "")
    \/ \E rerr \in ReadErrors : \E n \in {0, 4, Len(Send(HeartbeatEvent))} :
          SdkDo(TRUE, <<HeartbeatEvent>>, n, rerr)
    \/ SdkScanLine
    \/ SdkScanEnd
    \/ SdkCheck
    \/ SdkWaitDone
    \/ SdkWaitDelay

NextSdk ==
    \/ SdkConnectCall /\ SdkOnly
    \/ SdkDo(FALSE, <<>>, 0, "") /\ SdkOnly
    \/ (\E rerr \in ReadErrors : \E n \in {0, 4, Len(Send(HeartbeatEvent))} :
           SdkDo(TRUE, <<HeartbeatEvent>>, n, rerr)) /\ SdkOnly
    \/ SdkScanLine /\ SdkOnly
    \/ SdkScanEnd /\ SdkOnly
    \/ SdkCheck /\ SdkOnly
    \/ SdkWaitDone /\ SdkOnly
    \/ SdkWaitDelay /\ SdkOnly
    \/ (\E n \in 0..Len(body) : SdkCancel(n)) /\ SdkOnly

SpecSdk == InitSdk /\ [][NextSdk]_vars

\* The client's goroutine runs; the caller need not cancel, and the server
\* need not keep answering.
SpecSdkFair == SpecSdk /\ WF_vars(SdkStep /\ SdkOnly)

(***************************************************************************)
(* SpecSdkFrames: one connection of the client to a server that writes up  *)
(* to MaxFrames frames with SSEStream.Send, of which any number of tokens  *)
(* arrives before the stream ends.                                         *)
(***************************************************************************)
FrameSeqs == UNION {[1..k -> WireEvents] : k \in 0..MaxFrames}

InitSdkFrames == InitSdk /\ maxRetries = 1

NextSdkFrames ==
    \/ SdkConnectCall /\ SdkOnly
    \/ /\ cpc = "connect"
       /\ \E es \in FrameSeqs : \E n \in 0..Len(Stream(es)) : \E rerr \in ReadErrors :
             SdkDo(TRUE, es, n, rerr)
       /\ SdkOnly
    \/ SdkScanLine /\ SdkOnly
    \/ SdkScanEnd /\ SdkOnly
    \/ SdkCheck /\ SdkOnly

SpecSdkFrames == InitSdkFrames /\ [][NextSdkFrames]_vars

\* C32: with max_retries = n > 0, Connect returns the max-retries error after
\* n reconnection attempts, that is n + 1 connection attempts in all.
C32_RetryCount ==
    (maxRetries > 0 /\ cpc = "returned" /\ cerr = "max retries") => attempts = maxRetries + 1

\* the OnConnect and OnDisconnect calls among the handler calls cs, in order
RECURSIVE ConnCalls(_)
ConnCalls(cs) ==
    IF cs = <<>> THEN <<>>
    ELSE IF Head(cs).fn \in {"OnConnect", "OnDisconnect"} THEN <<Head(cs).fn>> \o ConnCalls(Tail(cs))
    ELSE ConnCalls(Tail(cs))

\* C40: OnConnect and OnDisconnect are paired: an OnConnect is followed by
\* an OnDisconnect before the next OnConnect, and before Connect returns,
\* also when it returns because the context was cancelled while connected.
C40_Paired ==
    LET cc == ConnCalls(calls) IN
    /\ \A i \in 1..(Len(cc) - 1) : cc[i] = "OnConnect" => cc[i + 1] = "OnDisconnect"
    /\ (cpc = "returned" /\ cc # <<>>) => cc[Len(cc)] = "OnDisconnect"

SdkCancelled == cctx = "cancelled"

\* with max_retries = 0 Connect returns only on a cancelled context
ReturnsOnlyOnCancel ==
    maxRetries = 0 =>
        /\ cpc = "returned" => (SdkCancelled /\ cerr = "context canceled")
        /\ cerr # "max retries"

\* once the context is cancelled no further request is sent
NoAttemptAfterCancel ==
    (maxRetries = 0 /\ SdkCancelled) => attempts' = attempts

\* the steps of a reconnection: a connection that has ended is followed by
\* OnDisconnect and the wait, the wait by the next connection attempt
ReconnectSteps ==
    maxRetries = 0 =>
        /\ (cpc = "check" /\ cpc' = "wait") => (calls' = Append(calls, OnDisconnect) /\ ~SdkCancelled)
        /\ (cpc' = "wait" /\ cpc # "wait") => cpc = "check"
        /\ (cpc' = "connect" /\ cpc # "connect") => cpc \in {"idle", "wait"}
        /\ attempts' # attempts => (cpc = "connect" /\ attempts' = attempts + 1)

\* C31: with max_retries = 0 the client reconnects after every end of a
\* stream: it calls OnDisconnect, waits, and connects again, as long as the
\* context is live (and the model lets it send another request); Connect
\* returns only when the context is cancelled, it does return then, and after
\* the cancellation no further connection attempt is made.
C31_Reconnect ==
    /\ []ReturnsOnlyOnCancel
    /\ [][NoAttemptAfterCancel]_vars
    /\ [][ReconnectSteps]_vars
    /\ \A k \in 0..(MaxAttempts - 1) :
          (maxRetries = 0 /\ cpc = "check" /\ attempts = k) ~> (attempts = k + 1 \/ SdkCancelled)
    /\ (maxRetries = 0 /\ SdkCancelled) ~> (cpc = "returned")

\* the client has connected, lost the stream, reconnected, and Connect has
\* returned after a cancellation
C31_Witness ==
    /\ maxRetries = 0
    /\ cpc = "returned"
    /\ SdkCancelled
    /\ attempts >= 2
    /\ Len(ConnCalls(calls)) >= 3
    /\ SubSeq(ConnCalls(calls), 1, 3) = <<"OnConnect", "OnDisconnect", "OnConnect">>

\* the calls of the handler for events, in order
RECURSIVE EventCalls(_)
EventCalls(cs) ==
    IF cs = <<>> THEN <<>>
    ELSE IF Head(cs).fn \in EventTypes THEN <<Head(cs)>> \o EventCalls(Tail(cs))
    ELSE EventCalls(Tail(cs))

\* the number of frames of es that lie whole within the first n tokens of
\* the stream
WholeFrames(es, n) ==
    Cardinality({i \in 1..Len(es) : Len(Stream(SubSeq(es, 1, i))) <= n})

\* the tokens of the response the scan loop has consumed
Consumed == sent.delivered - Len(body)

\* C33: the events dispatched to the handler are, in order, the frames that
\* SSEStream.Send wrote and the client has read whole, each as one call of
\* the handler of its type with a payload equal to the payload sent: no
\* frame is merged with its neighbour, lost or dispatched twice; and after
\* the blank line of a frame the parser's type and data buffer are empty.
C33_RoundTrip ==
    cpc \in {"stream", "check", "returned"} /\ sent # NoSent =>
        LET k == WholeFrames(sent.frames, IF cpc = "stream" THEN Consumed ELSE sent.delivered)
            ev == EventCalls(calls)
        IN  /\ Len(ev) = k
            /\ \A i \in 1..k : /\ ev[i].fn = sent.frames[i].type
                               /\ ev[i].arg = sent.frames[i].payload
            /\ (cpc = "stream" /\ k > 0 /\ Consumed = Len(Stream(SubSeq(sent.frames, 1, k))))
                   => (eventType = <<>> /\ data = <<>>)

\* frames of the same type with different payloads were written one after
\* the other, and all frames were read whole and dispatched
C33_Witness ==
    /\ cpc = "returned"
    /\ Len(sent.frames) = MaxFrames
    /\ sent.delivered = Len(Stream(sent.frames))
    /\ sent.frames[1].type = "game:state"
    /\ sent.frames[2].type = "game:state"
    /\ sent.frames[1].payload # sent.frames[2].payload
    /\ Len(EventCalls(calls)) = MaxFrames

====
